---- MODULE Spec2Model ----
(***************************************************************************)
(* Verification model of the answer-grading engine of quiz-app-nextjs:     *)
(* gradeNumericQuestion, gradeSequenceQuestion, gradeRatingQuestion and    *)
(* gradeDropdownQuestion with their validators and helpers.                *)
(*                                                                         *)
(* Every grader is a pure function.  Each specification below draws the    *)
(* arguments of one call in Init (pc = "call") and its single action       *)
(* applies the grader and stores the returned object (pc = "return").      *)
(***************************************************************************)
EXTENDS Integers, Sequences, FiniteSets, TLC

VARIABLES pc, args, result

vars == <<pc, args, result>>

(***************************************************************************)
(* Small helpers on integers and exact fractions.  A fraction is a pair    *)
(* <<numerator, denominator>> in lowest terms with a positive denominator. *)
(* Scores that JavaScript computes as one correctly rounded quotient of    *)
(* two small integers are kept as that quotient.                           *)
(***************************************************************************)
Abs(x) == IF x < 0 THEN -x ELSE x

Max2(x, y) == IF x >= y THEN x ELSE y

Min2(x, y) == IF x <= y THEN x ELSE y

RECURSIVE Gcd(_, _)
Gcd(x, y) == IF y = 0 THEN x ELSE Gcd(y, x % y)

Frac(n, d) ==
    LET s == IF d < 0 THEN -1 ELSE 1
        g == Gcd(Abs(n), Abs(d))
    IN  <<(s * n) \div g, (s * d) \div g>>

FracLe(p, q) == p[1] * q[2] <= q[1] * p[2]

FracLt(p, q) == p[1] * q[2] < q[1] * p[2]

FracMax(p, q) == IF FracLe(q, p) THEN p ELSE q

FracSub(p, q) == Frac(p[1] * q[2] - q[1] * p[2], p[2] * q[2])

FracMul(p, q) == Frac(p[1] * q[1], p[2] * q[2])

\* Math.round: the nearest integer, a tie going towards +Infinity.
MathRound(p) == (2 * p[1] + p[2]) \div (2 * p[2])

(***************************************************************************)
(* JavaScript numbers are IEEE 754 binary64 values.  A magnitude below     *)
(* 2^6 is held exactly as an integer count of 2^-60, written with three    *)
(* limbs <<hi, mid, lo>> in base 2^22.  Every binary64 value of magnitude  *)
(* at least 0.01 is a multiple of 2^-59, so sums and differences of the    *)
(* values used here are exact in this form before they are rounded.        *)
(***************************************************************************)
LimbBase == 2^22

\* Bits of the significand of a binary64 value.
MantissaBits == 53

RECURSIVE BitLen(_)
BitLen(n) == IF n = 0 THEN 0 ELSE 1 + BitLen(n \div 2)

LimbsBitLen(x) ==
    IF x[1] > 0 THEN 44 + BitLen(x[1])
    ELSE IF x[2] > 0 THEN 22 + BitLen(x[2])
    ELSE BitLen(x[3])

LimbsAdd(x, y) ==
    LET s3 == x[3] + y[3]
        s2 == x[2] + y[2] + (s3 \div LimbBase)
        s1 == x[1] + y[1] + (s2 \div LimbBase)
    IN  <<s1, s2 % LimbBase, s3 % LimbBase>>

LimbsLe(x, y) ==
    \/ x[1] < y[1]
    \/ x[1] = y[1] /\ x[2] < y[2]
    \/ x[1] = y[1] /\ x[2] = y[2] /\ x[3] <= y[3]

\* x - y for x >= y.
LimbsSub(x, y) ==
    LET d3 == x[3] - y[3]
        b3 == IF d3 < 0 THEN 1 ELSE 0
        d2 == x[2] - y[2] - b3
        b2 == IF d2 < 0 THEN 1 ELSE 0
        d1 == x[1] - y[1] - b2
    IN  <<d1, d2 + b2 * LimbBase, d3 + b3 * LimbBase>>

\* Round to nearest, ties to even, at MantissaBits significant bits; sticky
\* says that the exact value lies strictly above x.
RoundToDouble(x, sticky) ==
    LET q == LimbsBitLen(x) - MantissaBits
    IN  IF q <= 0 THEN x
        ELSE LET unit == 2^q
                 rem  == x[3] % unit
                 half == unit \div 2
                 down == <<x[1], x[2], x[3] - rem>>
                 odd  == (x[3] \div unit) % 2 = 1
                 up   == \/ rem > half
                         \/ rem = half /\ sticky
                         \/ rem = half /\ ~sticky /\ odd
             IN  IF up THEN LimbsAdd(down, <<0, 0, unit>>) ELSE down

\* The binary64 value nearest to n / d for integers n and d > 0: the
\* correctly rounded quotient of two exactly held integers.
NumberFromRatio(n, d) ==
    LET t1 == Abs(n) * 2^16
        t2 == (t1 % d) * LimbBase
        t3 == (t2 % d) * LimbBase
    IN  [neg |-> n < 0,
         mag |-> RoundToDouble(<<t1 \div d, t2 \div d, t3 \div d>>, t3 % d # 0)]

\* The binary64 value nearest to the decimal literal c/100 (c an integer
\* number of hundredths), as JavaScript parses a numeric literal or JSON number.
NumberFromCenti(c) == NumberFromRatio(c, 100)

\* x - y in binary64 arithmetic.
NumberSub(x, y) ==
    IF x.neg # y.neg
    THEN [neg |-> x.neg, mag |-> RoundToDouble(LimbsAdd(x.mag, y.mag), FALSE)]
    ELSE IF LimbsLe(y.mag, x.mag)
         THEN [neg |-> x.neg, mag |-> RoundToDouble(LimbsSub(x.mag, y.mag), FALSE)]
         ELSE [neg |-> ~x.neg, mag |-> RoundToDouble(LimbsSub(y.mag, x.mag), FALSE)]

\* Math.abs
NumberAbs(x) == [neg |-> FALSE, mag |-> x.mag]

NumberIsZero(x) == x.mag = <<0, 0, 0>>

\* x <= y
NumberLe(x, y) ==
    IF NumberIsZero(x) /\ NumberIsZero(y) THEN TRUE
    ELSE IF x.neg /\ ~y.neg THEN TRUE
    ELSE IF ~x.neg /\ y.neg THEN FALSE
    ELSE IF x.neg THEN LimbsLe(y.mag, x.mag)
    ELSE LimbsLe(x.mag, y.mag)

(***************************************************************************)
(* Numeric questions.  userAnswer, correctAnswer and tolerance are given   *)
(* as decimal literals with two places (integer hundredths) and reach the  *)
(* grader as binary64 numbers.                                             *)
(***************************************************************************)
NumLo == 950

NumHi == 1000

SmallMax == 10

Centis == (NumLo..NumHi) \cup ((-SmallMax)..SmallMax)

Tolerances == {0, 1, 10, 20, 30}

gradeNumericQuestionCountingCalls(userAnswer, question) ==
    LET difference == NumberAbs(NumberSub(NumberFromCenti(userAnswer),
                                          NumberFromCenti(question.correctAnswer)))
        isCorrect  == /\ NumberLe(difference, NumberFromCenti(question.tolerance))
                      /\ ~(pc = "between" /\ result.calls > 0)
    IN  [isCorrect |-> isCorrect, score |-> IF isCorrect THEN 1 ELSE 0]

gradeNumericQuestion(userAnswer, question) ==
    LET difference == NumberAbs(NumberSub(NumberFromCenti(userAnswer),
                                          NumberFromCenti(question.correctAnswer)))
        isCorrect  == NumberLe(difference, NumberFromCenti(question.tolerance))
    IN  [isCorrect |-> isCorrect, score |-> IF isCorrect THEN 1 ELSE 0]

NumericArgs ==
    [userAnswer : Centis,
     question : [correctAnswer : Centis, tolerance : Tolerances]]

InitNumeric == pc = "call" /\ args \in NumericArgs /\ result = <<>>

CallGradeNumericQuestion ==
    /\ pc = "call"
    /\ result' = gradeNumericQuestion(args.userAnswer, args.question)
    /\ pc' = "return"
    /\ UNCHANGED args

NextNumeric == CallGradeNumericQuestion

SpecNumeric == InitNumeric /\ [][NextNumeric]_vars

\* C1: gradeNumericQuestion returns isCorrect = (|a - c| <= t), the
\* boundary a = c + t and a = c - t included, and score = 1 exactly when
\* isCorrect and 0 otherwise, for decimal a, c and tolerance t >= 0.
C1_NumericWithinTolerance ==
    pc = "return" =>
        /\ result.isCorrect =
              (Abs(args.userAnswer - args.question.correctAnswer)
                  <= args.question.tolerance)
        /\ result.score = IF result.isCorrect THEN 1 ELSE 0

(***************************************************************************)
(* Sequence questions.  An answer arrives as an unknown JSON value; the    *)
(* model keeps what the zod schema SequenceAnswerSchema looks at.          *)
(***************************************************************************)
Ids == {"a", "b", "c"}

MaxSeqLen == 3

IdSeqs == UNION {[1..n -> Ids] : n \in 0..MaxSeqLen}

\* SequenceQuestionSchema and POST /api/quizzes store a correctSequence of at
\* least two ids; neither rejects a repeated id.
MinCorrectLen == 2

CorrectSequences == {s \in IdSeqs : Len(s) >= MinCorrectLen}

Range(s) == {s[i] : i \in 1..Len(s)}

\* { questionId, type: 'SEQUENCE', sequence } as the schema expects it.
SequenceAnswer(s) ==
    [isObject |-> TRUE, hasQuestionId |-> TRUE, type |-> "SEQUENCE",
     sequenceIsArray |-> TRUE, sequence |-> s]

SequenceAnswers ==
    {SequenceAnswer(s) : s \in IdSeqs}
    \cup {[SequenceAnswer(s) EXCEPT !.type = "RATING"] : s \in IdSeqs}
    \cup {[SequenceAnswer(<<"a", "b">>) EXCEPT !.isObject = FALSE],
          [SequenceAnswer(<<"a", "b">>) EXCEPT !.hasQuestionId = FALSE],
          [SequenceAnswer(<<>>) EXCEPT !.sequenceIsArray = FALSE]}

\* SequenceAnswerSchema.parse(answer) does not throw.
SequenceAnswerSchemaParses(answer) ==
    /\ answer.isObject
    /\ answer.hasQuestionId
    /\ answer.type = "SEQUENCE"
    /\ answer.sequenceIsArray
    /\ Len(answer.sequence) >= 1

validateSequenceAnswerNoSizeCheck(answer, correctSequence) ==
    IF ~SequenceAnswerSchemaParses(answer)
    THEN [isValid |-> FALSE, error |-> <<"Invalid answer format">>]
    ELSE IF Len(answer.sequence) # Len(correctSequence)
    THEN [isValid |-> FALSE,
          error |-> <<"Answer must contain exactly", Len(correctSequence), "items">>]
    ELSE IF \E i \in 1..Len(answer.sequence) : answer.sequence[i] \notin Range(correctSequence)
    THEN [isValid |-> FALSE, error |-> <<"Answer contains invalid items">>]
    ELSE [isValid |-> TRUE]

validateSequenceAnswer(answer, correctSequence) ==
    IF ~SequenceAnswerSchemaParses(answer)
    THEN [isValid |-> FALSE, error |-> <<"Invalid answer format">>]
    ELSE IF Len(answer.sequence) # Len(correctSequence)
    THEN [isValid |-> FALSE,
          error |-> <<"Answer must contain exactly", Len(correctSequence), "items">>]
    ELSE LET correctSet == Range(correctSequence)
             answerSet  == Range(answer.sequence)
         IN  IF Cardinality(correctSet) # Cardinality(answerSet)
             THEN [isValid |-> FALSE,
                   error |-> <<"Answer contains duplicate or missing items">>]
             ELSE IF \E i \in 1..Len(answer.sequence) :
                        answer.sequence[i] \notin correctSet
             THEN [isValid |-> FALSE, error |-> <<"Answer contains invalid items">>]
             ELSE [isValid |-> TRUE]

arraysEqualAsSets(arr1, arr2) ==
    Len(arr1) = Len(arr2) /\ Range(arr1) = Range(arr2)

arraysEqual(arr1, arr2) ==
    IF Len(arr1) # Len(arr2) THEN FALSE
    ELSE \A index \in 1..Len(arr1) : arr1[index] = arr2[index]

RECURSIVE CountPositions(_, _, _)
CountPositions(userSequence, correctSequence, i) ==
    IF i = 0 THEN 0
    ELSE CountPositions(userSequence, correctSequence, i - 1)
         + (IF userSequence[i] = correctSequence[i] THEN 1 ELSE 0)

calculatePositionalScore(userSequence, correctSequence) ==
    LET minLength == Min2(Len(userSequence), Len(correctSequence))
        correctPositions == CountPositions(userSequence, correctSequence, minLength)
    IN  Frac(correctPositions, Len(correctSequence))

longestCommonSubsequenceOneSided(seq1, seq2) ==
    LET m == Len(seq1)
        n == Len(seq2)
        dp[i \in 0..m, j \in 0..n] ==
            IF i = 0 \/ j = 0 THEN 0
            ELSE IF seq1[i] = seq2[j] THEN dp[i - 1, j - 1] + 1
            ELSE dp[i - 1, j]
    IN  dp[m, n]

\* The dynamic-programming table dp[i][j] of the source.
longestCommonSubsequence(seq1, seq2) ==
    LET m == Len(seq1)
        n == Len(seq2)
        dp[i \in 0..m, j \in 0..n] ==
            IF i = 0 \/ j = 0 THEN 0
            ELSE IF seq1[i] = seq2[j] THEN dp[i - 1, j - 1] + 1
            ELSE Max2(dp[i - 1, j], dp[i, j - 1])
    IN  dp[m, n]

calculateLongestCommonSubsequenceScore(userSequence, correctSequence) ==
    Frac(longestCommonSubsequence(userSequence, correctSequence), Len(correctSequence))

\* The key `${x}-${y}` under which a pair is put in the Set of the source.
PairKey(x, y) == x \o "-" \o y

RECURSIVE CountMatchingPairs(_, _, _)
CountMatchingPairs(userSequence, correctPairs, i) ==
    IF i <= 0 THEN 0
    ELSE CountMatchingPairs(userSequence, correctPairs, i - 1)
         + (IF PairKey(userSequence[i], userSequence[i + 1]) \in correctPairs
            THEN 1 ELSE 0)

calculateAdjacentPairsScore(userSequence, correctSequence) ==
    IF Len(correctSequence) < 2 THEN <<0, 1>>
    ELSE LET correctPairs ==
                 {PairKey(correctSequence[i], correctSequence[i + 1]) :
                      i \in 1..(Len(correctSequence) - 1)}
             matchingPairs ==
                 CountMatchingPairs(userSequence, correctPairs, Len(userSequence) - 1)
         IN  Frac(matchingPairs, Len(correctSequence) - 1)

calculatePartialCreditPositionalOnly(userSequence, correctSequence) ==
    calculatePositionalScore(userSequence, correctSequence)

calculatePartialCredit(userSequence, correctSequence) ==
    FracMax(calculatePositionalScore(userSequence, correctSequence),
            FracMax(calculateLongestCommonSubsequenceScore(userSequence, correctSequence),
                    calculateAdjacentPairsScore(userSequence, correctSequence)))

gradeSequenceQuestionIgnoringOption(userAnswer, correctSequence, allowPartialCredit) ==
    LET validation == validateSequenceAnswer(userAnswer, correctSequence)
        partialScore == calculatePartialCredit(userAnswer.sequence, correctSequence)
    IN  IF ~validation.isValid
        THEN [isCorrect |-> FALSE, score |-> <<0, 1>>, feedback |-> validation.error,
              correctSequence |-> correctSequence, userSequence |-> <<>>]
        ELSE IF arraysEqual(userAnswer.sequence, correctSequence)
        THEN [isCorrect |-> TRUE, score |-> <<1, 1>>,
              feedback |-> <<"Perfect! You got the sequence exactly right.">>,
              correctSequence |-> correctSequence, userSequence |-> userAnswer.sequence]
        ELSE [isCorrect |-> FALSE, score |-> partialScore,
              feedback |-> <<"Partially correct. You got",
                             MathRound(FracMul(partialScore, <<100, 1>>)),
                             "% of the sequence right.">>,
              partialCredit |-> partialScore,
              correctSequence |-> correctSequence, userSequence |-> userAnswer.sequence]

gradeSequenceQuestion(userAnswer, correctSequence, allowPartialCredit) ==
    LET validation == validateSequenceAnswer(userAnswer, correctSequence)
        userSequence == userAnswer.sequence
        partialScore == calculatePartialCredit(userSequence, correctSequence)
        incorrect ==
            [isCorrect |-> FALSE, score |-> <<0, 1>>,
             feedback |-> <<"Incorrect sequence. Try to think about the logical order of events or steps.">>,
             correctSequence |-> correctSequence, userSequence |-> userSequence]
    IN  IF ~validation.isValid
        THEN [isCorrect |-> FALSE, score |-> <<0, 1>>,
              feedback |-> IF "error" \in DOMAIN validation
                           THEN validation.error ELSE <<"Invalid answer format">>,
              correctSequence |-> correctSequence, userSequence |-> <<>>]
        ELSE IF arraysEqual(userSequence, correctSequence)
        THEN [isCorrect |-> TRUE, score |-> <<1, 1>>,
              feedback |-> <<"Perfect! You got the sequence exactly right.">>,
              correctSequence |-> correctSequence, userSequence |-> userSequence]
        ELSE IF allowPartialCredit
        THEN IF FracLt(<<0, 1>>, partialScore)
             THEN [isCorrect |-> FALSE, score |-> partialScore,
                   feedback |-> <<"Partially correct. You got",
                                  MathRound(FracMul(partialScore, <<100, 1>>)),
                                  "% of the sequence right.">>,
                   partialCredit |-> partialScore,
                   correctSequence |-> correctSequence, userSequence |-> userSequence]
             ELSE incorrect
        ELSE incorrect

SequenceArgs ==
    [userAnswer : SequenceAnswers, correctSequence : CorrectSequences,
     allowPartialCredit : BOOLEAN]

InitSequence == pc = "call" /\ args \in SequenceArgs /\ result = <<>>

CallGradeSequenceQuestion ==
    /\ pc = "call"
    /\ result' = gradeSequenceQuestion(args.userAnswer, args.correctSequence,
                                       args.allowPartialCredit)
    /\ pc' = "return"
    /\ UNCHANGED args

NextSequence == CallGradeSequenceQuestion

SpecSequence == InitSequence /\ [][NextSequence]_vars

(***************************************************************************)
(* Properties of the sequence grader.                                      *)
(***************************************************************************)
\* The answer has the shape { questionId: string, type: 'SEQUENCE',
\* sequence: string[] }.
SequenceAnswerWellShaped ==
    /\ args.userAnswer.isObject
    /\ args.userAnswer.hasQuestionId
    /\ args.userAnswer.type = "SEQUENCE"
    /\ args.userAnswer.sequenceIsArray

SequenceAccepted ==
    validateSequenceAnswer(args.userAnswer, args.correctSequence).isValid

NoDuplicates(s) == \A i, j \in 1..Len(s) : s[i] = s[j] => i = j

\* Same length, no duplicate ids, no id absent from correctSequence.
SequenceAcceptable ==
    /\ Len(args.userAnswer.sequence) = Len(args.correctSequence)
    /\ NoDuplicates(args.userAnswer.sequence)
    /\ \A i \in 1..Len(args.userAnswer.sequence) :
           \E j \in 1..Len(args.correctSequence) :
               args.userAnswer.sequence[i] = args.correctSequence[j]

SequenceRejection ==
    result = [isCorrect |-> FALSE, score |-> <<0, 1>>,
              feedback |-> validateSequenceAnswer(args.userAnswer,
                                                  args.correctSequence).error,
              correctSequence |-> args.correctSequence, userSequence |-> <<>>]

C3_ExactMatchIffEqual ==
    (pc = "return" /\ SequenceAccepted) =>
        /\ result.isCorrect <=>
              /\ Len(args.userAnswer.sequence) = Len(args.correctSequence)
              /\ \A i \in 1..Len(args.correctSequence) :
                     args.userAnswer.sequence[i] = args.correctSequence[i]
        /\ result.isCorrect =>
              /\ result.score = <<1, 1>>
              /\ "partialCredit" \notin DOMAIN result

C3_Witness ==
    /\ pc = "return"
    /\ SequenceAccepted
    /\ args.allowPartialCredit
    /\ Len(args.correctSequence) = 3
    /\ args.userAnswer.sequence = args.correctSequence
    /\ result.isCorrect
    /\ result.score = <<1, 1>>

\* Number of indices where the two sequences hold the same id.
PositionalMatches(u, c) == Cardinality({i \in 1..Len(c) : u[i] = c[i]})

RECURSIVE PickAt(_, _)
PickAt(s, I) ==
    IF I = {} THEN <<>>
    ELSE LET m == CHOOSE x \in I : \A y \in I : x <= y
         IN  <<s[m]>> \o PickAt(s, I \ {m})

\* Length of a longest common (not necessarily contiguous) subsequence.
CommonSubsequenceMax(u, c) ==
    LET lens == {Cardinality(I) : I \in {X \in SUBSET (1..Len(u)) :
                     \E J \in SUBSET (1..Len(c)) : PickAt(u, X) = PickAt(c, J)}}
    IN  CHOOSE k \in lens : \A l \in lens : l <= k

\* Consecutive pairs of u that are consecutive pairs of c.
AdjacentMatches(u, c) ==
    Cardinality({i \in 1..(Len(u) - 1) :
                    \E j \in 1..(Len(c) - 1) : u[i] = c[j] /\ u[i + 1] = c[j + 1]})

MaxOfThreeScores(u, c) ==
    LET p == Frac(PositionalMatches(u, c), Len(c))
        l == Frac(CommonSubsequenceMax(u, c), Len(c))
        a == Frac(AdjacentMatches(u, c), Len(c) - 1)
    IN  IF FracLe(l, p) /\ FracLe(a, p) THEN p
        ELSE IF FracLe(a, l) THEN l ELSE a

SequenceNotExact ==
    SequenceAccepted /\ args.userAnswer.sequence # args.correctSequence

C5_PartialCreditField ==
    pc = "return" =>
        /\ ("partialCredit" \in DOMAIN result) <=>
              /\ SequenceNotExact
              /\ args.allowPartialCredit
              /\ FracLt(<<0, 1>>, MaxOfThreeScores(args.userAnswer.sequence,
                                                   args.correctSequence))
        /\ ("partialCredit" \in DOMAIN result) => result.partialCredit = result.score
        /\ (SequenceNotExact /\ ~args.allowPartialCredit) =>
              /\ result.score = <<0, 1>>
              /\ ~result.isCorrect
              /\ "partialCredit" \notin DOMAIN result

C5_Witness ==
    /\ pc = "return"
    /\ SequenceNotExact
    /\ args.allowPartialCredit
    /\ "partialCredit" \in DOMAIN result
    /\ result.partialCredit = <<2, 3>>
    /\ result.score = <<2, 3>>
    /\ ~result.isCorrect

(***************************************************************************)
(* Rating questions.  An optional argument is <<>> when omitted and <<v>>  *)
(* when given.  The score 1 - distance / maxDistance is kept as the exact  *)
(* value of that expression; where the code compares it with a literal,    *)
(* the comparison is made on its binary64 value.                           *)
(***************************************************************************)
\* RatingAnswerSchema: rating: z.number().int().min(1).max(10)
RatingSchemaMin == 1

RatingSchemaMax == 10

\* Largest ratingMax of the question configurations explored.
MaxScale == 5

RatingTypes == {"stars", "numbers", "emoji", "likert"}

\* { questionId, type: 'RATING', rating } as the schema expects it.
RatingAnswer(r) ==
    [isObject |-> TRUE, hasQuestionId |-> TRUE, type |-> "RATING",
     ratingIsInteger |-> TRUE, rating |-> r]

RatingAnswers ==
    {RatingAnswer(r) : r \in 0..(RatingSchemaMax + 1)}
    \cup {[RatingAnswer(2) EXCEPT !.isObject = FALSE],
          [RatingAnswer(2) EXCEPT !.hasQuestionId = FALSE],
          [RatingAnswer(2) EXCEPT !.type = "SEQUENCE"],
          [RatingAnswer(2) EXCEPT !.ratingIsInteger = FALSE]}

\* RatingAnswerSchema.parse(answer) does not throw.
RatingAnswerSchemaParses(answer) ==
    /\ answer.isObject
    /\ answer.hasQuestionId
    /\ answer.type = "RATING"
    /\ answer.ratingIsInteger
    /\ answer.rating >= RatingSchemaMin
    /\ answer.rating <= RatingSchemaMax

validateRatingAnswerExclusive(answer, ratingMin, ratingMax) ==
    IF ~RatingAnswerSchemaParses(answer)
    THEN [isValid |-> FALSE, error |-> <<"Invalid rating format">>]
    ELSE IF answer.rating <= ratingMin \/ answer.rating >= ratingMax
    THEN [isValid |-> FALSE,
          error |-> <<"Rating must be between", ratingMin, "and", ratingMax>>]
    ELSE [isValid |-> TRUE]

validateRatingAnswer(answer, ratingMin, ratingMax) ==
    IF ~RatingAnswerSchemaParses(answer)
    THEN [isValid |-> FALSE, error |-> <<"Invalid rating format">>]
    ELSE IF answer.rating < ratingMin \/ answer.rating > ratingMax
    THEN [isValid |-> FALSE,
          error |-> <<"Rating must be between", ratingMin, "and", ratingMax>>]
    ELSE [isValid |-> TRUE]

\* percentage = ((rating - min) / (max - min)) * 100
RatingPercentage(rating, min, max) == Frac((rating - min) * 100, max - min)

getTypeSpecificFeedback(ratingType, rating, min, max) ==
    CASE ratingType = "stars" ->
            IF rating = max THEN <<"Excellent rating!">>
            ELSE IF rating = min THEN <<"We appreciate your honest feedback">>
            ELSE <<>>
      [] ratingType = "emoji" ->
            IF 5 * (rating - min) >= 4 * (max - min)
            THEN <<"Great to see you're happy!">>
            ELSE IF 5 * (rating - min) <= max - min
            THEN <<"We'll work to improve your experience">>
            ELSE <<>>
      [] ratingType = "likert" ->
            IF 5 * (rating - min) >= 4 * (max - min)
            THEN <<"Strong agreement noted">>
            ELSE IF 5 * (rating - min) <= max - min
            THEN <<"Your disagreement is valuable feedback">>
            ELSE <<>>
      [] ratingType = "numbers" ->
            <<"That's", MathRound(RatingPercentage(rating, min, max)), "% on our scale">>
      [] OTHER -> <<>>

generateSubjectiveFeedbackExclusive(rating, ratingType, min, max) ==
    LET percentage == RatingPercentage(rating, min, max)
        intensityWord ==
            IF FracLt(<<80, 1>>, percentage) THEN "very positive"
            ELSE IF FracLt(<<60, 1>>, percentage) THEN "positive"
            ELSE IF FracLt(<<40, 1>>, percentage) THEN "neutral"
            ELSE IF FracLt(<<20, 1>>, percentage) THEN "somewhat negative"
            ELSE "negative"
    IN  <<"Thank you for your", intensityWord, "rating of", rating,
          getTypeSpecificFeedback(ratingType, rating, min, max),
          "Your feedback has been recorded.">>

generateSubjectiveFeedback(rating, ratingType, min, max) ==
    LET percentage == RatingPercentage(rating, min, max)
        intensityWord ==
            IF FracLe(<<80, 1>>, percentage) THEN "very positive"
            ELSE IF FracLe(<<60, 1>>, percentage) THEN "positive"
            ELSE IF FracLe(<<40, 1>>, percentage) THEN "neutral"
            ELSE IF FracLe(<<20, 1>>, percentage) THEN "somewhat negative"
            ELSE "negative"
    IN  <<"Thank you for your", intensityWord, "rating of", rating,
          getTypeSpecificFeedback(ratingType, rating, min, max),
          "Your feedback has been recorded.">>

\* The band is chosen by comparing the binary64 value of
\* Math.max(0, 1 - actualDistance / maxDistance) with 0.8, 0.6, 0.4 and 0.2.
generatePartialCreditFeedback(actualDistance, maxDistance) ==
    LET diff  == NumberSub(NumberFromRatio(1, 1), NumberFromRatio(actualDistance, maxDistance))
        score == IF diff.neg THEN NumberFromRatio(0, 1) ELSE diff
    IN  IF NumberLe(NumberFromCenti(80), score)
        THEN <<"You were quite close to the expected rating.">>
        ELSE IF NumberLe(NumberFromCenti(60), score)
        THEN <<"You were moderately close to the expected rating.">>
        ELSE IF NumberLe(NumberFromCenti(40), score)
        THEN <<"Your rating was somewhat different from what was expected.">>
        ELSE IF NumberLe(NumberFromCenti(20), score)
        THEN <<"Your rating was quite different from the expected value.">>
        ELSE <<"Your rating was significantly different from what was expected.">>

\* const actualTolerance = tolerance || 0
ActualTolerance(tolerance) == IF tolerance = <<>> THEN 0 ELSE tolerance[1]

IsWithinToleranceStrict(userRating, expectedRating, actualTolerance) ==
    Abs(userRating - expectedRating) < actualTolerance

IsWithinTolerance(userRating, expectedRating, actualTolerance) ==
    Abs(userRating - expectedRating) <= actualTolerance

MaxDistanceOfScale(expectedRating, ratingMin, ratingMax) == ratingMax - ratingMin

MaxDistance(expectedRating, ratingMin, ratingMax) ==
    Max2(Abs(ratingMax - expectedRating), Abs(ratingMin - expectedRating))

PartialScoreRising(actualDistance, maxDistance) ==
    FracMax(<<0, 1>>, Frac(actualDistance, maxDistance))

\* Math.max(0, 1 - (actualDistance / maxDistance))
PartialScore(actualDistance, maxDistance) ==
    FracMax(<<0, 1>>, FracSub(<<1, 1>>, Frac(actualDistance, maxDistance)))

gradeRatingQuestion(userAnswer, ratingMin, ratingMax, ratingType, expectedRating, tolerance, isSubjective) ==
    LET validation == validateRatingAnswer(userAnswer, ratingMin, ratingMax)
        userRating == userAnswer.rating
        common == [expectedRating |-> expectedRating, ratingType |-> ratingType,
                   scale |-> [min |-> ratingMin, max |-> ratingMax]]
        subjective ==
            [isCorrect |-> TRUE, score |-> <<1, 1>>,
             feedback |-> generateSubjectiveFeedback(userRating, ratingType,
                                                     ratingMin, ratingMax),
             userRating |-> userRating] @@ common
    IN  IF ~validation.isValid
        THEN [isCorrect |-> FALSE, score |-> <<0, 1>>,
              feedback |-> IF "error" \in DOMAIN validation
                           THEN validation.error ELSE <<"Invalid rating format">>,
              userRating |-> 0] @@ common
        ELSE IF isSubjective THEN subjective
        ELSE IF expectedRating # <<>>
        THEN LET actualTolerance == ActualTolerance(tolerance)
                 maxDistance == MaxDistance(expectedRating[1], ratingMin, ratingMax)
                 actualDistance == Abs(userRating - expectedRating[1])
             IN  IF IsWithinTolerance(userRating, expectedRating[1], actualTolerance)
                 THEN [isCorrect |-> TRUE, score |-> <<1, 1>>,
                       feedback |->
                           IF actualTolerance > 0
                           THEN <<"Correct! Your rating of", userRating,
                                  "is within the acceptable range.">>
                           ELSE <<"Perfect! You gave the exact expected rating of",
                                  expectedRating[1]>>,
                       userRating |-> userRating] @@ common
                 ELSE [isCorrect |-> FALSE,
                       score |-> PartialScore(actualDistance, maxDistance),
                       feedback |->
                           <<"Your rating of", userRating,
                             "differs from the expected rating of", expectedRating[1],
                             generatePartialCreditFeedback(actualDistance, maxDistance)>>,
                       userRating |-> userRating] @@ common
        ELSE subjective

RatingArgs ==
    {a \in [userAnswer : RatingAnswers,
            ratingMin : RatingSchemaMin..MaxScale,
            ratingMax : RatingSchemaMin..MaxScale,
            ratingType : RatingTypes,
            expectedRating : {<<>>} \cup {<<e>> : e \in 0..(MaxScale + 1)},
            tolerance : {<<>>, <<-1>>, <<0>>, <<1>>, <<2>>},
            isSubjective : BOOLEAN] : a.ratingMin < a.ratingMax}

InitRating == pc = "call" /\ args \in RatingArgs /\ result = <<>>

CallGradeRatingQuestion ==
    /\ pc = "call"
    /\ result' = gradeRatingQuestion(args.userAnswer, args.ratingMin, args.ratingMax,
                                     args.ratingType, args.expectedRating,
                                     args.tolerance, args.isSubjective)
    /\ pc' = "return"
    /\ UNCHANGED args

NextRating == CallGradeRatingQuestion

SpecRating == InitRating /\ [][NextRating]_vars

(***************************************************************************)
(* Properties of the rating grader.                                        *)
(***************************************************************************)
\* The answer passes validation: an integer rating within the scale.
RatingInRange ==
    /\ args.userAnswer.isObject
    /\ args.userAnswer.hasQuestionId
    /\ args.userAnswer.type = "RATING"
    /\ args.userAnswer.ratingIsInteger
    /\ args.ratingMin <= args.userAnswer.rating
    /\ args.userAnswer.rating <= args.ratingMax

RatingObjective == ~args.isSubjective /\ args.expectedRating # <<>>

RatingDistance == Abs(args.userAnswer.rating - args.expectedRating[1])

RatingToleranceOrZero == IF args.tolerance = <<>> THEN 0 ELSE args.tolerance[1]

\* C6: every rating that passes validation is graded isCorrect=true, score=1
\* when isSubjective is true, and also when isSubjective is false but no
\* expectedRating is given.
C6_SubjectiveAlwaysCorrect ==
    (pc = "return" /\ RatingInRange /\ (args.isSubjective \/ args.expectedRating = <<>>))
        => (result.isCorrect /\ result.score = <<1, 1>>)

C6_Witness ==
    /\ pc = "return"
    /\ RatingInRange
    /\ ~args.isSubjective
    /\ args.expectedRating = <<>>
    /\ args.userAnswer.rating = args.ratingMin
    /\ result.isCorrect
    /\ result.score = <<1, 1>>

\* C7: in objective mode every valid rating is graded
\* isCorrect = (|userRating - expectedRating| <= tolerance), an omitted
\* tolerance counting as 0.
C7_ObjectiveWithinTolerance ==
    (pc = "return" /\ RatingInRange /\ RatingObjective)
        => (result.isCorrect <=> RatingDistance <= RatingToleranceOrZero)

\* expectedRating=4, tolerance=1 on scale 1..5: rating 3 is correct.
C7_Witness ==
    /\ pc = "return"
    /\ RatingObjective
    /\ args.ratingMin = 1 /\ args.ratingMax = 5
    /\ args.expectedRating = <<4>> /\ args.tolerance = <<1>>
    /\ args.userAnswer = RatingAnswer(3)
    /\ result.isCorrect

RatingLargestDistance ==
    LET ds == {Abs(args.ratingMax - args.expectedRating[1]),
               Abs(args.ratingMin - args.expectedRating[1])}
    IN  CHOOSE d \in ds : \A x \in ds : x <= d

\* C8: in objective mode every valid rating outside the tolerance is graded
\* isCorrect=false with score = max(0, 1 - |userRating - expectedRating| / D),
\* D = max(|ratingMax - expectedRating|, |ratingMin - expectedRating|), and D
\* is not 0 there.
C8_ObjectivePartialScore ==
    (pc = "return" /\ RatingInRange /\ RatingObjective
        /\ RatingDistance > RatingToleranceOrZero)
        => /\ ~result.isCorrect
           /\ RatingLargestDistance # 0
           /\ result.score =
                  IF RatingDistance >= RatingLargestDistance THEN <<0, 1>>
                  ELSE Frac(RatingLargestDistance - RatingDistance, RatingLargestDistance)

\* expectedRating=4 on scale 1..5 with rating 1: score 0.
C8_Witness ==
    /\ pc = "return"
    /\ RatingObjective
    /\ args.ratingMin = 1 /\ args.ratingMax = 5
    /\ args.expectedRating = <<4>> /\ args.tolerance = <<1>>
    /\ args.userAnswer = RatingAnswer(1)
    /\ ~result.isCorrect
    /\ result.score = <<0, 1>>

(***************************************************************************)
(* Dropdown questions.  A string is the sequence of its characters.        *)
(***************************************************************************)
Chars == {"a", "A", " "}

MaxStrLen == 6

Strings == UNION {[1..n -> Chars] : n \in 0..MaxStrLen}

\* String.prototype.toLowerCase
ToLowerCase(str) == [i \in 1..Len(str) |-> IF str[i] = "A" THEN "a" ELSE str[i]]

RECURSIVE TrimStart(_)
TrimStart(str) ==
    IF str # <<>> /\ Head(str) = " " THEN TrimStart(Tail(str)) ELSE str

RECURSIVE TrimEnd(_)
TrimEnd(str) ==
    IF str # <<>> /\ str[Len(str)] = " "
    THEN TrimEnd(SubSeq(str, 1, Len(str) - 1)) ELSE str

\* String.prototype.trim
Trim(str) == TrimEnd(TrimStart(str))

\* { type: 'DROPDOWN', selectedOption } as the validator expects it.
DropdownAnswer(str) ==
    [isObject |-> TRUE, type |-> "DROPDOWN", selectedIsString |-> TRUE,
     selectedOption |-> str]

DropdownAnswers ==
    {DropdownAnswer(str) : str \in Strings}
    \cup {[DropdownAnswer(<<"a">>) EXCEPT !.isObject = FALSE],
          [DropdownAnswer(<<"a">>) EXCEPT !.type = "RATING"],
          [DropdownAnswer(<<"a">>) EXCEPT !.selectedIsString = FALSE]}

Option(text, isCorrect, orderIndex) ==
    [text |-> text, isCorrect |-> isCorrect, orderIndex |-> orderIndex]

\* Texts of the correct option: non-empty (DropdownQuestionSchema), written
\* without surrounding white space.
CorrectTexts ==
    {<<"a">>, <<"A", "a">>, <<"A", "a", "a", "a", "A">>,
     <<"a", "a", " ", "a", "a">>, <<"a", "a", "a", "a", "a", "a">>,
     <<"A", "a", "a", "a", "a", "a">>, <<"a", " ", "a", "a", "a", "a">>}

\* question.options: one option flagged correct, or none (a configuration
\* the grader has to survive).
DropdownQuestions ==
    {<<Option(c, TRUE, 0), Option(<<"a", "A">>, FALSE, 1)>> : c \in CorrectTexts}
    \cup {<<Option(<<"a", "A">>, FALSE, 0), Option(<<"a", "a">>, TRUE, 1)>>,
          <<Option(<<"a", "A">>, FALSE, 0), Option(<<"a">>, FALSE, 1)>>}

validateDropdownAnswerNoBlankCheck(answer) ==
    IF ~answer.isObject
    THEN [isValid |-> FALSE, error |-> "Answer must be an object"]
    ELSE IF answer.type # "DROPDOWN"
    THEN [isValid |-> FALSE, error |-> "Answer type must be DROPDOWN"]
    ELSE IF ~answer.selectedIsString \/ answer.selectedOption = <<>>
    THEN [isValid |-> FALSE,
          error |-> "Selected option is required and must be a string"]
    ELSE [isValid |-> TRUE]

validateDropdownAnswer(answer) ==
    IF ~answer.isObject
    THEN [isValid |-> FALSE, error |-> "Answer must be an object"]
    ELSE IF answer.type # "DROPDOWN"
    THEN [isValid |-> FALSE, error |-> "Answer type must be DROPDOWN"]
    ELSE IF ~answer.selectedIsString \/ answer.selectedOption = <<>>
    THEN [isValid |-> FALSE,
          error |-> "Selected option is required and must be a string"]
    ELSE IF Len(Trim(answer.selectedOption)) = 0
    THEN [isValid |-> FALSE, error |-> "Please select a valid option"]
    ELSE [isValid |-> TRUE]

getCorrectOptionOrFirst(question) ==
    IF \E i \in 1..Len(question) : question[i].isCorrect
    THEN LET first == CHOOSE i \in 1..Len(question) :
                          /\ question[i].isCorrect
                          /\ \A j \in 1..(i - 1) : ~question[j].isCorrect
         IN  question[first].text
    ELSE question[1].text

\* question.options.find(opt => opt.isCorrect)?.text || ''
getCorrectOption(question) ==
    IF \E i \in 1..Len(question) : question[i].isCorrect
    THEN LET first == CHOOSE i \in 1..Len(question) :
                          /\ question[i].isCorrect
                          /\ \A j \in 1..(i - 1) : ~question[j].isCorrect
         IN  question[first].text
    ELSE <<>>

Min3(x, y, z) == Min2(x, Min2(y, z))

RECURSIVE FillRowWithoutSubstitution(_, _, _, _, _)
FillRowWithoutSubstitution(s1, s2, j, prev, cur) ==
    LET i == Len(cur)
    IN  IF i > Len(s1) THEN cur
        ELSE LET indicator == IF s1[i] = s2[j] THEN 0 ELSE 2
                 cell == Min3(cur[i] + 1, prev[i + 1] + 1, prev[i] + indicator)
             IN  FillRowWithoutSubstitution(s1, s2, j, prev, Append(cur, cell))

\* One row matrix[j][0..] of the Levenshtein table, cell by cell; prev is
\* matrix[j-1], cur the cells of row j filled so far.
RECURSIVE FillRow(_, _, _, _, _)
FillRow(s1, s2, j, prev, cur) ==
    LET i == Len(cur)
    IN  IF i > Len(s1) THEN cur
        ELSE LET indicator == IF s1[i] = s2[j] THEN 0 ELSE 1
                 cell == Min3(cur[i] + 1, prev[i + 1] + 1, prev[i] + indicator)
             IN  FillRow(s1, s2, j, prev, Append(cur, cell))

\* The rows 1..s2.length of the table; the result is the last row.
RECURSIVE FillMatrix(_, _, _, _)
FillMatrix(s1, s2, j, prev) ==
    IF j > Len(s2) THEN prev
    ELSE FillMatrix(s1, s2, j + 1, FillRow(s1, s2, j, prev, <<j>>))

calculateStringSimilarity(str1, str2, caseSensitive) ==
    LET s1 == IF caseSensitive THEN str1 ELSE ToLowerCase(str1)
        s2 == IF caseSensitive THEN str2 ELSE ToLowerCase(str2)
    IN  IF s1 = s2 THEN <<1, 1>>
        ELSE IF Len(s1) = 0 \/ Len(s2) = 0 THEN <<0, 1>>
        ELSE LET lastRow == FillMatrix(s1, s2, 1, [i \in 1..(Len(s1) + 1) |-> i - 1])
                 maxLength == Max2(Len(s1), Len(s2))
             IN  Frac(maxLength - lastRow[Len(s1) + 1], maxLength)

generateFeedback(type, selectedOption, correctOption, question, similarity) ==
    CASE type = "correct" ->
            <<"Excellent! You correctly selected", selectedOption>>
      [] type = "partial" ->
            <<"Your selection is close to the correct answer", selectedOption,
              correctOption,
              IF similarity[1] # 0 THEN MathRound(FracMul(similarity, <<100, 1>>)) ELSE 0,
              "% match">>
      [] type = "incorrect" ->
            <<"Your selection is not correct", selectedOption, correctOption,
              IF Len(question) > 5
              THEN "With many options available, take time to read each one carefully."
              ELSE "Consider reviewing the question and available options.">>
      [] OTHER -> <<"Unable to process your answer. Please try again.">>

IsExactMatchRaw(selectedOption, correctOption, caseSensitive) ==
    selectedOption = correctOption

IsExactMatch(selectedOption, correctOption, caseSensitive) ==
    IF caseSensitive THEN selectedOption = correctOption
    ELSE ToLowerCase(selectedOption) = ToLowerCase(correctOption)

\* similarity >= 0.8
AtLeastThreshold(similarity) == FracLe(<<4, 5>>, similarity)

\* similarity > 0.8
AboveThreshold(similarity) == FracLt(<<4, 5>>, similarity)

gradeDropdownQuestion(question, answer, options) ==
    LET caseSensitive == options.caseSensitive
        allowPartialCredit == options.allowPartialCredit
        maxScore == options.maxScore
        validation == validateDropdownAnswer(answer)
        selectedOption == Trim(answer.selectedOption)
        correctOption == getCorrectOption(question)
        similarity == calculateStringSimilarity(selectedOption, correctOption, caseSensitive)
        incorrectDetails == [answerType |-> "incorrect", matchType |-> "none",
                             caseSensitive |-> caseSensitive]
    IN  IF ~validation.isValid
        THEN [score |-> <<0, 1>>, maxScore |-> maxScore, isCorrect |-> FALSE,
              feedback |-> <<"Invalid answer format:", validation.error>>,
              selectedOption |-> <<>>, correctOption |-> correctOption,
              partialCredit |-> FALSE, gradingDetails |-> incorrectDetails]
        ELSE IF IsExactMatch(selectedOption, correctOption, caseSensitive)
        THEN [score |-> maxScore, maxScore |-> maxScore, isCorrect |-> TRUE,
              feedback |-> generateFeedback("correct", selectedOption, correctOption,
                                            question, <<0, 1>>),
              selectedOption |-> selectedOption, correctOption |-> correctOption,
              partialCredit |-> FALSE,
              gradingDetails |-> [answerType |-> "correct", matchType |-> "exact",
                                  caseSensitive |-> caseSensitive]]
        ELSE IF allowPartialCredit /\ AboveThreshold(similarity)
        THEN [score |-> Frac(MathRound(FracMul(FracMul(maxScore, similarity),
                                               <<100, 1>>)), 100),
              maxScore |-> maxScore, isCorrect |-> FALSE,
              feedback |-> generateFeedback("partial", selectedOption, correctOption,
                                            question, similarity),
              selectedOption |-> selectedOption, correctOption |-> correctOption,
              partialCredit |-> TRUE, gradingDetails |-> incorrectDetails]
        ELSE [score |-> <<0, 1>>, maxScore |-> maxScore, isCorrect |-> FALSE,
              feedback |-> generateFeedback("incorrect", selectedOption, correctOption,
                                            question, <<0, 1>>),
              selectedOption |-> selectedOption, correctOption |-> correctOption,
              partialCredit |-> FALSE, gradingDetails |-> incorrectDetails]

\* options.maxScore: 1 (the default), 2 and 0.009, as exact fractions.
MaxScores == {<<1, 1>>, <<2, 1>>, <<9, 1000>>}

DropdownArgs ==
    [question : DropdownQuestions, answer : DropdownAnswers,
     options : [caseSensitive : BOOLEAN, allowPartialCredit : BOOLEAN,
                maxScore : MaxScores]]

InitDropdown == pc = "call" /\ args \in DropdownArgs /\ result = <<>>

CallGradeDropdownQuestion ==
    /\ pc = "call"
    /\ result' = gradeDropdownQuestion(args.question, args.answer, args.options)
    /\ pc' = "return"
    /\ UNCHANGED args

NextDropdown == CallGradeDropdownQuestion

SpecDropdown == InitDropdown /\ [][NextDropdown]_vars

(***************************************************************************)
(* Properties of the dropdown grader.                                      *)
(***************************************************************************)
DropdownValid == validateDropdownAnswer(args.answer).isValid

\* text equals the text of the option flagged correct, case-folded unless
\* caseSensitive.
EqualsCorrectText(text) ==
    \E i \in 1..Len(args.question) :
        /\ args.question[i].isCorrect
        /\ IF args.options.caseSensitive
           THEN text = args.question[i].text
           ELSE ToLowerCase(text) = ToLowerCase(args.question[i].text)

DropdownExactIff(text) ==
    /\ result.isCorrect <=> EqualsCorrectText(text)
    /\ result.isCorrect =>
          /\ result.score = args.options.maxScore
          /\ result.gradingDetails.matchType = "exact"
    /\ ~result.isCorrect => result.gradingDetails.matchType = "none"

\* C9 (as stated): for every valid answer the result is isCorrect=true,
\* score=maxScore, matchType 'exact' if and only if the selected text, as
\* submitted, equals the correct option's text (case-folded unless
\* caseSensitive).
C9_ExactIffSubmittedTextEqual ==
    (pc = "return" /\ DropdownValid) => DropdownExactIff(args.answer.selectedOption)

\* C9 (amended): the same with the selected text stripped of leading and
\* trailing white space before the comparison.
C9_ExactIffTrimmedTextEqual ==
    (pc = "return" /\ DropdownValid) => DropdownExactIff(Trim(args.answer.selectedOption))

\* Correct text 'Aa', answer 'aa': correct by default, also with partial
\* credit enabled.
C9_Witness ==
    /\ pc = "return"
    /\ DropdownValid
    /\ ~args.options.caseSensitive
    /\ args.options.allowPartialCredit
    /\ getCorrectOption(args.question) = <<"A", "a">>
    /\ args.answer.selectedOption = <<"a", "a">>
    /\ result.isCorrect
    /\ result.score = args.options.maxScore

\* score is maxScore * sim rounded to 2 decimals: a whole number of
\* hundredths at most half a hundredth away.
IsRoundedTo2Decimals(score, maxScore, sim) ==
    \E n \in 0..((100 * maxScore[1]) \div maxScore[2] + 1) :
        /\ score = Frac(n, 100)
        /\ 2 * Abs(n * sim[2] * maxScore[2] - 100 * maxScore[1] * sim[1])
              <= sim[2] * maxScore[2]

DropdownPartialRule(text) ==
    LET sim == calculateStringSimilarity(text, getCorrectOption(args.question),
                                         args.options.caseSensitive)
    IN  /\ (args.options.allowPartialCredit /\ FracLt(<<4, 5>>, sim)) =>
              /\ IsRoundedTo2Decimals(result.score, args.options.maxScore, sim)
              /\ result.partialCredit
              /\ ~result.isCorrect
        /\ (~args.options.allowPartialCredit \/ FracLe(sim, <<4, 5>>)) =>
              /\ result.score = <<0, 1>>
              /\ ~result.partialCredit

\* C10 (as stated): for every valid answer that is not an exact match, with
\* s the similarity between the selected text as submitted and the correct
\* text: allowPartialCredit and s > 0.80 give score = maxScore*s rounded to 2
\* decimals, partialCredit=true, isCorrect=false; s <= 0.80 or
\* allowPartialCredit=false give score 0 and partialCredit=false.
C10_PartialCreditOnSubmittedText ==
    (pc = "return" /\ DropdownValid /\ ~result.isCorrect)
        => DropdownPartialRule(args.answer.selectedOption)

\* C10 (amended): the same with s the similarity between the selected text
\* stripped of leading and trailing white space and the correct text.
C10_PartialCreditOnTrimmedText ==
    (pc = "return" /\ DropdownValid /\ ~result.isCorrect)
        => DropdownPartialRule(Trim(args.answer.selectedOption))

\* 'aaaaa' against 'aaaaaa': s = 5/6 > 0.80, score 0.83.
C10_Witness ==
    /\ pc = "return"
    /\ DropdownValid
    /\ args.options.allowPartialCredit
    /\ args.options.maxScore = <<1, 1>>
    /\ getCorrectOption(args.question) = <<"a", "a", "a", "a", "a", "a">>
    /\ args.answer.selectedOption = <<"a", "a", "a", "a", "a">>
    /\ result.score = <<83, 100>>
    /\ result.partialCredit
    /\ ~result.isCorrect

(***************************************************************************)
(* All graders.  One call of one of the four graders: the shape of args    *)
(* tells which grader the call is addressed to.                            *)
(***************************************************************************)
IsSequenceCall == "correctSequence" \in DOMAIN args

IsRatingCall == "ratingMin" \in DOMAIN args

IsDropdownCall == "options" \in DOMAIN args

IsNumericCall == ~IsSequenceCall /\ ~IsRatingCall /\ ~IsDropdownCall

InitGraders == InitNumeric \/ InitSequence \/ InitRating \/ InitDropdown

GradeNumeric == IsNumericCall /\ CallGradeNumericQuestion

GradeSequence == IsSequenceCall /\ CallGradeSequenceQuestion

GradeRating == IsRatingCall /\ CallGradeRatingQuestion

GradeDropdown == IsDropdownCall /\ CallGradeDropdownQuestion

NextGraders == GradeNumeric \/ GradeSequence \/ GradeRating \/ GradeDropdown

SpecGraders == InitGraders /\ [][NextGraders]_vars

(***************************************************************************)
(* Properties of all graders.                                              *)
(***************************************************************************)
\* Not an object, wrong type tag, missing field or wrong field type.
MalformedSequenceAnswer == ~SequenceAnswerWellShaped

\* The same, or a rating outside the scale of the question.
MalformedRatingAnswer == ~RatingInRange

IsBlank(str) == \A i \in 1..Len(str) : str[i] = " "

\* The same, or a selection that is empty or made of white space only.
MalformedDropdownAnswer ==
    \/ ~args.answer.isObject
    \/ args.answer.type # "DROPDOWN"
    \/ ~args.answer.selectedIsString
    \/ IsBlank(args.answer.selectedOption)

DropdownValidationErrors ==
    {"Answer must be an object", "Answer type must be DROPDOWN",
     "Selected option is required and must be a string",
     "Please select a valid option", "Invalid answer format"}

\* C11: every malformed answer makes the sequence, rating and dropdown
\* graders return a complete result with isCorrect=false, score=0 and a
\* non-empty feedback; the dropdown result has also matchType 'none',
\* answerType 'incorrect', partialCredit=false and a feedback that embeds
\* the validation error.
C11_MalformedAnswerRejected ==
    pc = "return" =>
        /\ (IsSequenceCall /\ MalformedSequenceAnswer) =>
              /\ DOMAIN result = {"isCorrect", "score", "feedback",
                                  "correctSequence", "userSequence"}
              /\ ~result.isCorrect
              /\ result.score = <<0, 1>>
              /\ result.feedback # <<>>
        /\ (IsRatingCall /\ MalformedRatingAnswer) =>
              /\ DOMAIN result = {"isCorrect", "score", "feedback", "userRating",
                                  "expectedRating", "ratingType", "scale"}
              /\ ~result.isCorrect
              /\ result.score = <<0, 1>>
              /\ result.feedback # <<>>
        /\ (IsDropdownCall /\ MalformedDropdownAnswer) =>
              /\ DOMAIN result = {"score", "maxScore", "isCorrect", "feedback",
                                  "selectedOption", "correctOption",
                                  "partialCredit", "gradingDetails"}
              /\ ~result.isCorrect
              /\ result.score = <<0, 1>>
              /\ result.gradingDetails.matchType = "none"
              /\ result.gradingDetails.answerType = "incorrect"
              /\ ~result.partialCredit
              /\ Len(result.feedback) = 2
              /\ result.feedback[1] = "Invalid answer format:"
              /\ result.feedback[2] \in DropdownValidationErrors

\* A selection of white space only, refused by the dropdown grader.
C11_Witness ==
    /\ pc = "return"
    /\ IsDropdownCall
    /\ args.answer.isObject
    /\ args.answer.type = "DROPDOWN"
    /\ args.answer.selectedIsString
    /\ args.answer.selectedOption = <<" ", " ">>
    /\ result.feedback = <<"Invalid answer format:", "Please select a valid option">>
    /\ result.score = <<0, 1>>

(***************************************************************************)
(* validateNumericInput.  The input is a string over a few characters; the *)
(* element "Infinity" stands for that word written out.  A parsed number   *)
(* is the exact decimal value its digits denote, and the optional bounds   *)
(* are whole numbers: no two of these values share a binary64 value, so    *)
(* the comparisons of the code are the comparisons of the decimal values.  *)
(***************************************************************************)
InputDigits == {"1", "5"}

InputChars == InputDigits \cup {" ", "-", ".", "x", "Infinity"}

MaxInputLen == 4

Inputs == UNION {[1..n -> InputChars] : n \in 0..MaxInputLen}

OptionalBounds == {<<>>} \cup {<<b>> : b \in {-1, 1, 5, 12}}

DigitValue(c) == IF c = "1" THEN 1 ELSE 5

\* The longest prefix of str made of digits.
RECURSIVE DigitPrefix(_)
DigitPrefix(str) ==
    IF str # <<>> /\ Head(str) \in InputDigits
    THEN <<Head(str)>> \o DigitPrefix(Tail(str))
    ELSE <<>>

RECURSIVE DecimalValue(_)
DecimalValue(digits) ==
    IF digits = <<>> THEN 0
    ELSE 10 * DecimalValue(SubSeq(digits, 1, Len(digits) - 1))
         + DigitValue(digits[Len(digits)])

Pow10(k) == 10 ^ k

\* parseFloat: leading white space is skipped, then the longest prefix that
\* is a decimal literal (optional sign, Infinity or digits with an optional
\* fraction) is converted; anything after it is ignored; NaN when there is
\* no such prefix.
parseFloat(input) ==
    LET t == TrimStart(input)
        negative == t # <<>> /\ Head(t) = "-"
        u == IF negative THEN Tail(t) ELSE t
        intPart == DigitPrefix(u)
        afterInt == SubSeq(u, Len(intPart) + 1, Len(u))
        fracPart == IF afterInt # <<>> /\ Head(afterInt) = "."
                    THEN DigitPrefix(Tail(afterInt)) ELSE <<>>
        magnitude == DecimalValue(intPart) * Pow10(Len(fracPart)) + DecimalValue(fracPart)
    IN  IF u # <<>> /\ Head(u) = "Infinity"
        THEN [kind |-> "infinite", negative |-> negative]
        ELSE IF intPart = <<>> /\ fracPart = <<>>
        THEN [kind |-> "NaN"]
        ELSE [kind |-> "finite",
              value |-> Frac(IF negative THEN -magnitude ELSE magnitude,
                             Pow10(Len(fracPart)))]

validateNumericInputMaxFirst(input, minValue, maxValue) ==
    IF Trim(input) = <<>>
    THEN [isValid |-> FALSE, error |-> <<"Please enter a number">>]
    ELSE LET value == parseFloat(input)
         IN  IF value.kind # "finite"
             THEN [isValid |-> FALSE, error |-> <<"Please enter a valid number">>]
             ELSE IF maxValue # <<>> /\ FracLt(<<maxValue[1], 1>>, value.value)
             THEN [isValid |-> FALSE,
                   error |-> <<"Value must be at most", maxValue[1]>>]
             ELSE IF minValue # <<>> /\ FracLt(value.value, <<minValue[1], 1>>)
             THEN [isValid |-> FALSE,
                   error |-> <<"Value must be at least", minValue[1]>>]
             ELSE [isValid |-> TRUE, value |-> value.value]

validateNumericInput(input, minValue, maxValue) ==
    IF Trim(input) = <<>>
    THEN [isValid |-> FALSE, error |-> <<"Please enter a number">>]
    ELSE LET value == parseFloat(input)
         IN  IF value.kind # "finite"
             THEN [isValid |-> FALSE, error |-> <<"Please enter a valid number">>]
             ELSE IF minValue # <<>> /\ FracLt(value.value, <<minValue[1], 1>>)
             THEN [isValid |-> FALSE,
                   error |-> <<"Value must be at least", minValue[1]>>]
             ELSE IF maxValue # <<>> /\ FracLt(<<maxValue[1], 1>>, value.value)
             THEN [isValid |-> FALSE,
                   error |-> <<"Value must be at most", maxValue[1]>>]
             ELSE [isValid |-> TRUE, value |-> value.value]

NumericInputArgs ==
    [input : Inputs, minValue : OptionalBounds, maxValue : OptionalBounds]

InitNumericInput == pc = "call" /\ args \in NumericInputArgs /\ result = <<>>

CallValidateNumericInput ==
    /\ pc = "call"
    /\ result' = validateNumericInput(args.input, args.minValue, args.maxValue)
    /\ pc' = "return"
    /\ UNCHANGED args

NextNumericInput == CallValidateNumericInput

SpecNumericInput == InitNumericInput /\ [][NextNumericInput]_vars

(***************************************************************************)
(* Properties of validateNumericInput.                                     *)
(***************************************************************************)
InputParsed == parseFloat(args.input)

InputFinite == ~IsBlank(args.input) /\ InputParsed.kind = "finite"

InputBelowMin ==
    args.minValue # <<>> /\ InputParsed.value[1] < args.minValue[1] * InputParsed.value[2]

InputAboveMax ==
    args.maxValue # <<>> /\ InputParsed.value[1] > args.maxValue[1] * InputParsed.value[2]

\* C12: the checks are made in the order empty, unparsable or non-finite,
\* below minValue, above maxValue, and the first failure is reported with
\* its message; a value is returned exactly when isValid, an error exactly
\* when not; an accepted value is finite and within the bounds present.
C12_ValidateNumericInput ==
    pc = "return" =>
        /\ IsBlank(args.input) =>
              result = [isValid |-> FALSE, error |-> <<"Please enter a number">>]
        /\ (~IsBlank(args.input) /\ InputParsed.kind # "finite") =>
              result = [isValid |-> FALSE, error |-> <<"Please enter a valid number">>]
        /\ (InputFinite /\ InputBelowMin) =>
              result = [isValid |-> FALSE,
                        error |-> <<"Value must be at least", args.minValue[1]>>]
        /\ (InputFinite /\ ~InputBelowMin /\ InputAboveMax) =>
              result = [isValid |-> FALSE,
                        error |-> <<"Value must be at most", args.maxValue[1]>>]
        /\ (InputFinite /\ ~InputBelowMin /\ ~InputAboveMax) => result.isValid
        /\ result.isValid <=> "value" \in DOMAIN result
        /\ ~result.isValid <=> "error" \in DOMAIN result
        /\ result.isValid =>
              /\ InputFinite
              /\ result.value = InputParsed.value
              /\ ~InputBelowMin
              /\ ~InputAboveMax

\* '1.5' with minValue 5 and maxValue 1 fails both bounds: the minimum is
\* the one reported.
C12_Witness ==
    /\ pc = "return"
    /\ args.input = <<"1", ".", "5">>
    /\ args.minValue = <<5>>
    /\ args.maxValue = <<1>>
    /\ result = [isValid |-> FALSE, error |-> <<"Value must be at least", 5>>]

\* No option of the question is flagged isCorrect.
NoCorrectOption == \A i \in 1..Len(args.question) : ~args.question[i].isCorrect

\* C13: when no option is flagged isCorrect the grader returns a result
\* whose correctOption is the empty string, and every answer, valid or not,
\* with or without allowPartialCredit, is graded isCorrect=false, score 0.
C13_NoCorrectOption ==
    (pc = "return" /\ IsDropdownCall /\ NoCorrectOption) =>
        /\ result.correctOption = <<>>
        /\ ~result.isCorrect
        /\ result.score = <<0, 1>>

\* A valid answer naming the first option of such a question, graded with
\* partial credit enabled.
C13_Witness ==
    /\ pc = "return"
    /\ IsDropdownCall
    /\ NoCorrectOption
    /\ ~MalformedDropdownAnswer
    /\ args.answer.selectedOption = args.question[1].text
    /\ args.options.allowPartialCredit
    /\ result.correctOption = <<>>
    /\ result.score = <<0, 1>>
    /\ ~result.isCorrect

\* C14 (as stated): every result of every grader has a score within [0, 1],
\* for dropdown within [0, maxScore].
C14_ScoreWithinRange ==
    pc = "return" =>
        /\ IsNumericCall => result.score \in {0, 1}
        /\ (IsSequenceCall \/ IsRatingCall) =>
              /\ FracLe(<<0, 1>>, result.score)
              /\ FracLe(result.score, <<1, 1>>)
        /\ IsDropdownCall =>
              /\ FracLe(<<0, 1>>, result.score)
              /\ FracLe(result.score, args.options.maxScore)

\* The same without the dropdown grader: numeric, sequence and rating
\* scores are within [0, 1].
C14_ScoreWithinUnitRange ==
    (pc = "return" /\ ~IsDropdownCall) =>
        /\ IsNumericCall => result.score \in {0, 1}
        /\ (IsSequenceCall \/ IsRatingCall) =>
              /\ FracLe(<<0, 1>>, result.score)
              /\ FracLe(result.score, <<1, 1>>)

(***************************************************************************)
(* calculateRatingStatistics.  The ratings are whole numbers; average and  *)
(* median are exact fractions (the binary64 rounding of the average was    *)
(* compared with the exact one for every list of up to 8 ratings).         *)
(***************************************************************************)
RatingValues == RatingSchemaMin..MaxScale

MaxRatings == 4

RatingLists == UNION {[1..n -> RatingValues] : n \in 0..MaxRatings}

\* ratings.reduce((sum, rating) => sum + rating, 0)
RECURSIVE SumRatings(_)
SumRatings(ratings) ==
    IF ratings = <<>> THEN 0
    ELSE SumRatings(SubSeq(ratings, 1, Len(ratings) - 1)) + ratings[Len(ratings)]

\* x placed after the elements of the ascending sequence not greater than it.
RECURSIVE InsertAscending(_, _)
InsertAscending(sorted, x) ==
    IF sorted = <<>> \/ x < Head(sorted) THEN <<x>> \o sorted
    ELSE <<Head(sorted)>> \o InsertAscending(Tail(sorted), x)

\* [...ratings].sort((a, b) => a - b)
RECURSIVE SortAscending(_)
SortAscending(seq) ==
    IF seq = <<>> THEN <<>>
    ELSE InsertAscending(SortAscending(SubSeq(seq, 1, Len(seq) - 1)), seq[Len(seq)])

\* ratings.forEach(rating => distribution[rating] = (distribution[rating] || 0) + 1)
RECURSIVE CountRatings(_, _, _)
CountRatings(ratings, i, distribution) ==
    IF i > Len(ratings) THEN distribution
    ELSE LET rating == ratings[i]
             count == IF rating \in DOMAIN distribution THEN distribution[rating] ELSE 0
         IN  CountRatings(ratings, i + 1, (rating :> count + 1) @@ distribution)

\* Math.max(...Object.values(distribution))
MaxCount(distribution) ==
    CHOOSE c \in {distribution[k] : k \in DOMAIN distribution} :
        \A k \in DOMAIN distribution : distribution[k] <= c

\* Object.keys of an object whose keys are whole numbers: ascending order.
RECURSIVE ObjectKeys(_)
ObjectKeys(keys) ==
    IF keys = {} THEN <<>>
    ELSE LET least == CHOOSE k \in keys : \A other \in keys : k <= other
         IN  <<least>> \o ObjectKeys(keys \ {least})

\* keys.filter(rating => distribution[Number(rating)] === maxCount).map(Number)
RECURSIVE SelectKeys(_, _, _)
SelectKeys(keys, distribution, maxCount) ==
    IF keys = <<>> THEN <<>>
    ELSE (IF distribution[Head(keys)] = maxCount THEN <<Head(keys)>> ELSE <<>>)
         \o SelectKeys(Tail(keys), distribution, maxCount)

calculateRatingStatisticsUpperMedian(ratings)  ==
    IF Len(ratings) = 0
    THEN [average |-> <<0, 1>>, median |-> <<0, 1>>, mode |-> <<>>,
          distribution |-> <<>>, total |-> 0]
    ELSE LET average == Frac(SumRatings(ratings), Len(ratings))
             sorted == SortAscending(ratings)
             half == Len(sorted) \div 2
             median == <<sorted[half + 1], 1>>
             distribution == CountRatings(ratings, 1, <<>>)
             maxCount == MaxCount(distribution)
             mode == SelectKeys(ObjectKeys(DOMAIN distribution), distribution, maxCount)
         IN  [average |-> Frac(MathRound(FracMul(average, <<100, 1>>)), 100),
              median |-> median, mode |-> mode, distribution |-> distribution,
              total |-> Len(ratings)]

calculateRatingStatistics(ratings)  ==
    IF Len(ratings) = 0
    THEN [average |-> <<0, 1>>, median |-> <<0, 1>>, mode |-> <<>>,
          distribution |-> <<>>, total |-> 0]
    ELSE LET average == Frac(SumRatings(ratings), Len(ratings))
             sorted == SortAscending(ratings)
             half == Len(sorted) \div 2
             median == IF Len(sorted) % 2 = 0
                       THEN Frac(sorted[half] + sorted[half + 1], 2)
                       ELSE <<sorted[half + 1], 1>>
             distribution == CountRatings(ratings, 1, <<>>)
             maxCount == MaxCount(distribution)
             mode == SelectKeys(ObjectKeys(DOMAIN distribution), distribution, maxCount)
         IN  [average |-> Frac(MathRound(FracMul(average, <<100, 1>>)), 100),
              median |-> median, mode |-> mode, distribution |-> distribution,
              total |-> Len(ratings)]

RatingStatisticsArgs == [ratings : RatingLists]

InitRatingStatistics == pc = "call" /\ args \in RatingStatisticsArgs /\ result = <<>>

CallCalculateRatingStatistics ==
    /\ pc = "call"
    /\ result' = calculateRatingStatistics(args.ratings)
    /\ pc' = "return"
    /\ UNCHANGED args

NextRatingStatistics == CallCalculateRatingStatistics

SpecRatingStatistics == InitRatingStatistics /\ [][NextRatingStatistics]_vars

(***************************************************************************)
(* Properties of calculateRatingStatistics.                                *)
(***************************************************************************)
Occurrences(v) == Cardinality({i \in 1..Len(args.ratings) : args.ratings[i] = v})

CountBelow(v) == Cardinality({i \in 1..Len(args.ratings) : args.ratings[i] < v})

CountUpTo(v) == Cardinality({i \in 1..Len(args.ratings) : args.ratings[i] <= v})

\* The k-th element of the list in ascending order.
KthSmallest(k) ==
    CHOOSE v \in Range(args.ratings) : CountBelow(v) < k /\ k <= CountUpTo(v)

RECURSIVE SumOver(_, _)
SumOver(f, keys) ==
    IF keys = {} THEN 0
    ELSE LET k == CHOOSE x \in keys : TRUE IN f[k] + SumOver(f, keys \ {k})

RatingsTotal == SumOver(args.ratings, 1..Len(args.ratings))

\* C17: for a non-empty list, total is its length, distribution counts each
\* distinct value (the counts summing to total), average is the mean
\* rounded to 2 decimals, median is the middle element of the sorted list
\* or the mean of the two middle elements, and mode is the set of the
\* values with the largest count; for the empty list everything is 0 or
\* empty.
C17_RatingStatistics ==
    pc = "return" =>
        IF args.ratings = <<>>
        THEN result = [average |-> <<0, 1>>, median |-> <<0, 1>>, mode |-> <<>>,
                       distribution |-> <<>>, total |-> 0]
        ELSE LET n == Len(args.ratings)
             IN  /\ result.total = n
                 /\ DOMAIN result.distribution = Range(args.ratings)
                 /\ \A v \in Range(args.ratings) :
                        result.distribution[v] = Occurrences(v)
                 /\ SumOver(result.distribution, DOMAIN result.distribution) = n
                 /\ \E h \in 0..(100 * MaxScale) :
                        /\ result.average = Frac(h, 100)
                        /\ 2 * Abs(h * n - 100 * RatingsTotal) <= n
                 /\ result.median =
                        IF n % 2 = 1 THEN <<KthSmallest((n + 1) \div 2), 1>>
                        ELSE Frac(KthSmallest(n \div 2) + KthSmallest(n \div 2 + 1), 2)
                 /\ Range(result.mode) =
                        {v \in Range(args.ratings) :
                            \A w \in Range(args.ratings) : Occurrences(w) <= Occurrences(v)}
                 /\ NoDuplicates(result.mode)

\* Four ratings with two modes and a median between two values.
C17_Witness ==
    /\ pc = "return"
    /\ args.ratings = <<2, 1, 1, 2>>
    /\ result.total = 4
    /\ result.average = <<3, 2>>
    /\ result.median = <<3, 2>>
    /\ result.mode = <<1, 2>>
    /\ result.distribution = (1 :> 2) @@ (2 :> 2)

(***************************************************************************)
(* generateDropdownStatistics.  incorrectOptions is a plain object: its    *)
(* own keys are enumerated with the keys that are canonical array indices  *)
(* ('2', '10') first, in ascending numeric order, then the other keys in   *)
(* the order of their creation.  It is held as the sequence of its entries *)
(* in that order.  Scores are exact fractions (the binary64 rounding of    *)
(* the averages was compared with the exact one on the batches used).      *)
(***************************************************************************)
DecimalDigits == <<"0", "1", "2", "3", "4", "5", "6", "7", "8", "9">>

DecimalDigitValue(c) == (CHOOSE i \in 1..Len(DecimalDigits) : DecimalDigits[i] = c) - 1

\* The key is the canonical decimal form of a whole number (an array index).
IsArrayIndexKey(key) ==
    /\ key # <<>>
    /\ \A i \in 1..Len(key) : key[i] \in Range(DecimalDigits)
    /\ Len(key) = 1 \/ Head(key) # "0"

RECURSIVE ArrayIndexOf(_)
ArrayIndexOf(key) ==
    IF key = <<>> THEN 0
    ELSE 10 * ArrayIndexOf(SubSeq(key, 1, Len(key) - 1))
         + DecimalDigitValue(key[Len(key)])

\* Position of a new own key among the entries of the object.
RECURSIVE InsertKey(_, _)
InsertKey(entries, entry) ==
    IF entries = <<>> THEN <<entry>>
    ELSE IF /\ IsArrayIndexKey(entry.option)
            /\ \/ ~IsArrayIndexKey(Head(entries).option)
               \/ ArrayIndexOf(entry.option) < ArrayIndexOf(Head(entries).option)
    THEN <<entry>> \o entries
    ELSE <<Head(entries)>> \o InsertKey(Tail(entries), entry)

\* incorrectOptions[option] = (incorrectOptions[option] || 0) + 1
AddOccurrence(entries, option) ==
    IF \E i \in 1..Len(entries) : entries[i].option = option
    THEN [i \in 1..Len(entries) |->
              IF entries[i].option = option
              THEN [entries[i] EXCEPT !.count = @ + 1] ELSE entries[i]]
    ELSE InsertKey(entries, [option |-> option, count |-> 1])

\* results.forEach(...): the entries of incorrectOptions after the loop.
RECURSIVE CountIncorrectOptions(_, _, _)
CountIncorrectOptions(results, i, entries) ==
    IF i > Len(results) THEN entries
    ELSE CountIncorrectOptions(results, i + 1,
             IF ~results[i].isCorrect /\ results[i].selectedOption # <<>>
             THEN AddOccurrence(entries, results[i].selectedOption)
             ELSE entries)

\* entry placed after the entries whose count is not smaller.
RECURSIVE InsertByCount(_, _)
InsertByCount(sorted, entry) ==
    IF sorted = <<>> \/ Head(sorted).count < entry.count THEN <<entry>> \o sorted
    ELSE <<Head(sorted)>> \o InsertByCount(Tail(sorted), entry)

\* .sort((a, b) => b.count - a.count): a stable sort.
RECURSIVE SortByCount(_)
SortByCount(entries) ==
    IF entries = <<>> THEN <<>>
    ELSE InsertByCount(SortByCount(SubSeq(entries, 1, Len(entries) - 1)),
                       entries[Len(entries)])

\* .slice(0, 5)
TopCount == 5

FracAdd(p, q) == Frac(p[1] * q[2] + q[1] * p[2], p[2] * q[2])

\* results.reduce((sum, r) => sum + r.score, 0)
RECURSIVE SumScores(_)
SumScores(results) ==
    IF results = <<>> THEN <<0, 1>>
    ELSE FracAdd(SumScores(SubSeq(results, 1, Len(results) - 1)),
                 results[Len(results)].score)

generateDropdownStatisticsPartialAsIncorrect(results)  ==
    LET totalAttempts == Len(results)
        correctAnswers == Cardinality({i \in 1..Len(results) : results[i].isCorrect})
        partialCreditAnswers ==
            Cardinality({i \in 1..Len(results) : results[i].partialCredit})
        incorrectAnswers == totalAttempts - correctAnswers
        totalScore == SumScores(results)
        averageScore == IF totalAttempts > 0
                        THEN FracMul(totalScore, <<1, totalAttempts>>) ELSE <<0, 1>>
        accuracyRate == IF totalAttempts > 0
                        THEN FracMul(Frac(correctAnswers, totalAttempts), <<100, 1>>)
                        ELSE <<0, 1>>
        incorrectOptions == CountIncorrectOptions(results, 1, <<>>)
        commonIncorrectAnswers ==
            SubSeq(SortByCount(incorrectOptions), 1,
                   Min2(TopCount, Len(incorrectOptions)))
    IN  [totalAttempts |-> totalAttempts,
         correctAnswers |-> correctAnswers,
         incorrectAnswers |-> incorrectAnswers,
         partialCreditAnswers |-> partialCreditAnswers,
         averageScore |-> Frac(MathRound(FracMul(averageScore, <<100, 1>>)), 100),
         accuracyRate |-> Frac(MathRound(FracMul(accuracyRate, <<100, 1>>)), 100),
         commonIncorrectAnswers |-> commonIncorrectAnswers]

generateDropdownStatistics(results)  ==
    LET totalAttempts == Len(results)
        correctAnswers == Cardinality({i \in 1..Len(results) : results[i].isCorrect})
        partialCreditAnswers ==
            Cardinality({i \in 1..Len(results) : results[i].partialCredit})
        incorrectAnswers == totalAttempts - correctAnswers - partialCreditAnswers
        totalScore == SumScores(results)
        averageScore == IF totalAttempts > 0
                        THEN FracMul(totalScore, <<1, totalAttempts>>) ELSE <<0, 1>>
        accuracyRate == IF totalAttempts > 0
                        THEN FracMul(Frac(correctAnswers, totalAttempts), <<100, 1>>)
                        ELSE <<0, 1>>
        incorrectOptions == CountIncorrectOptions(results, 1, <<>>)
        commonIncorrectAnswers ==
            SubSeq(SortByCount(incorrectOptions), 1,
                   Min2(TopCount, Len(incorrectOptions)))
    IN  [totalAttempts |-> totalAttempts,
         correctAnswers |-> correctAnswers,
         incorrectAnswers |-> incorrectAnswers,
         partialCreditAnswers |-> partialCreditAnswers,
         averageScore |-> Frac(MathRound(FracMul(averageScore, <<100, 1>>)), 100),
         accuracyRate |-> Frac(MathRound(FracMul(accuracyRate, <<100, 1>>)), 100),
         commonIncorrectAnswers |-> commonIncorrectAnswers]

\* The batch is made of results of gradeDropdownQuestion for one question
\* (correct text 'aaaaaa') graded with partial credit: the exact answer, a
\* close one, a blank one and wrong ones, two of them numerals.
StatisticsQuestion ==
    <<Option(<<"a", "a", "a", "a", "a", "a">>, TRUE, 0), Option(<<"b">>, FALSE, 1),
      Option(<<"1", "0">>, FALSE, 2), Option(<<"2">>, FALSE, 3)>>

StatisticsOptions ==
    [caseSensitive |-> FALSE, allowPartialCredit |-> TRUE, maxScore |-> <<1, 1>>]

StatisticsSelections ==
    {<<"a", "a", "a", "a", "a", "a">>, <<"a", "a", "a", "a", "a">>, <<" ">>,
     <<"b">>, <<"c">>, <<"d">>, <<"1", "0">>, <<"2">>}

StatisticsResults ==
    {gradeDropdownQuestion(StatisticsQuestion, DropdownAnswer(sel), StatisticsOptions) :
         sel \in StatisticsSelections}

WrongSelectionResults ==
    {r \in StatisticsResults : ~r.isCorrect /\ r.selectedOption # <<>>}

MaxMixedBatch == 4

MaxBatch == 6

\* Short batches of any results, longer ones of wrong selections only.
StatisticsBatches ==
    UNION {[1..n -> StatisticsResults] : n \in 0..MaxMixedBatch}
    \cup UNION {[1..n -> WrongSelectionResults] : n \in (MaxMixedBatch + 1)..MaxBatch}

DropdownStatisticsArgs == [results : StatisticsBatches]

InitDropdownStatistics ==
    pc = "call" /\ args \in DropdownStatisticsArgs /\ result = <<>>

CallGenerateDropdownStatistics ==
    /\ pc = "call"
    /\ result' = generateDropdownStatistics(args.results)
    /\ pc' = "return"
    /\ UNCHANGED args

NextDropdownStatistics == CallGenerateDropdownStatistics

SpecDropdownStatistics == InitDropdownStatistics /\ [][NextDropdownStatistics]_vars

(***************************************************************************)
(* Properties of generateDropdownStatistics.                               *)
(***************************************************************************)
BatchIndices == 1..Len(args.results)

BatchCorrect == {i \in BatchIndices : args.results[i].isCorrect}

BatchPartial == {i \in BatchIndices : args.results[i].partialCredit}

\* The score of result i in hundredths (every score of the batch is a
\* whole number of hundredths).
ScoreHundredths == [i \in BatchIndices |->
                       (100 * args.results[i].score[1]) \div args.results[i].score[2]]

\* C18: totalAttempts is the batch size, correctAnswers and
\* partialCreditAnswers count the results with isCorrect and with
\* partialCredit, incorrectAnswers the remaining ones, so that the three
\* counts are >= 0 and sum to totalAttempts; averageScore is the mean score
\* and accuracyRate is 100*correctAnswers/totalAttempts, both rounded to 2
\* decimals; every value is 0 for the empty batch.
C18_DropdownStatistics ==
    pc = "return" =>
        LET n == Len(args.results)
        IN  /\ result.totalAttempts = n
            /\ result.correctAnswers = Cardinality(BatchCorrect)
            /\ result.partialCreditAnswers = Cardinality(BatchPartial)
            /\ result.incorrectAnswers =
                   Cardinality(BatchIndices \ (BatchCorrect \cup BatchPartial))
            /\ result.correctAnswers >= 0
            /\ result.partialCreditAnswers >= 0
            /\ result.incorrectAnswers >= 0
            /\ result.correctAnswers + result.partialCreditAnswers
                   + result.incorrectAnswers = result.totalAttempts
            /\ n > 0 =>
                  /\ \E h \in 0..100 :
                         /\ result.averageScore = Frac(h, 100)
                         /\ 2 * Abs(h * n - SumOver(ScoreHundredths, BatchIndices)) <= n
                  /\ \E h \in 0..10000 :
                         /\ result.accuracyRate = Frac(h, 100)
                         /\ 2 * Abs(h * n - 10000 * Cardinality(BatchCorrect)) <= n
            /\ n = 0 =>
                  /\ result.averageScore = <<0, 1>>
                  /\ result.accuracyRate = <<0, 1>>
                  /\ result.commonIncorrectAnswers = <<>>

\* One exact answer, one close answer and one wrong answer.
C18_Witness ==
    /\ pc = "return"
    /\ Len(args.results) = 3
    /\ args.results[1].isCorrect
    /\ args.results[2].partialCredit
    /\ args.results[3].selectedOption = <<"b">>
    /\ result.totalAttempts = 3
    /\ result.correctAnswers = 1
    /\ result.partialCreditAnswers = 1
    /\ result.incorrectAnswers = 1
    /\ result.averageScore = <<61, 100>>
    /\ result.accuracyRate = <<3333, 100>>

\* The results that are not correct and carry a selection.
BatchWrong ==
    {i \in BatchIndices :
        ~args.results[i].isCorrect /\ args.results[i].selectedOption # <<>>}

WrongSelections == {args.results[i].selectedOption : i \in BatchWrong}

SelectionCount(option) ==
    Cardinality({i \in BatchWrong : args.results[i].selectedOption = option})

FirstOccurrence(option) ==
    CHOOSE i \in BatchWrong :
        /\ args.results[i].selectedOption = option
        /\ \A j \in BatchWrong : args.results[j].selectedOption = option => i <= j

\* option a comes before option b in the ranking: more occurrences, or as
\* many and an earlier first occurrence.
RankedBefore(a, b) ==
    \/ SelectionCount(a) > SelectionCount(b)
    \/ /\ SelectionCount(a) = SelectionCount(b)
       /\ FirstOccurrence(a) < FirstOccurrence(b)

\* C19 (as stated): commonIncorrectAnswers has at most 5 entries, one per
\* distinct selection among the incorrect results, each with its number of
\* occurrences, the most frequent ones, in non-increasing order of count
\* and, for equal counts, in the order of first occurrence in the batch.
C19_CommonIncorrectAnswers ==
    pc = "return" =>
        LET common == result.commonIncorrectAnswers
            listed == {common[i].option : i \in 1..Len(common)}
        IN  /\ Len(common) = Min2(5, Cardinality(WrongSelections))
            /\ listed \subseteq WrongSelections
            /\ \A i \in 1..Len(common) :
                   common[i].count = SelectionCount(common[i].option)
            /\ \A i, j \in 1..Len(common) :
                   i < j => RankedBefore(common[i].option, common[j].option)
            /\ \A a \in listed : \A b \in WrongSelections \ listed : RankedBefore(a, b)

\* The same without the order among entries of equal count: at most 5
\* entries, distinct selections with their exact counts, non-increasing,
\* and no selection left out occurs more often than a listed one.
C19_CommonIncorrectAnswersByCount ==
    pc = "return" =>
        LET common == result.commonIncorrectAnswers
            listed == {common[i].option : i \in 1..Len(common)}
        IN  /\ Len(common) = Min2(5, Cardinality(WrongSelections))
            /\ Cardinality(listed) = Len(common)
            /\ listed \subseteq WrongSelections
            /\ \A i \in 1..Len(common) :
                   common[i].count = SelectionCount(common[i].option)
            /\ \A i, j \in 1..Len(common) :
                   i < j => common[i].count >= common[j].count
            /\ \A a \in listed : \A b \in WrongSelections \ listed :
                   SelectionCount(a) >= SelectionCount(b)

(***************************************************************************)
(* longestCommonSubsequence and the score built on it, called on any two   *)
(* id sequences (of different lengths, with repeated ids).  The call is    *)
(* either longestCommonSubsequence(seq1, seq2) or                          *)
(* calculateLongestCommonSubsequenceScore(userSequence, correctSequence).  *)
(***************************************************************************)
SubsequenceArgs ==
    [seq1 : IdSeqs, seq2 : IdSeqs]
    \cup [userSequence : IdSeqs, correctSequence : CorrectSequences]

InitSubsequence == pc = "call" /\ args \in SubsequenceArgs /\ result = <<>>

CallLongestCommonSubsequence ==
    /\ pc = "call"
    /\ "seq1" \in DOMAIN args
    /\ result' = [length |-> longestCommonSubsequence(args.seq1, args.seq2)]
    /\ pc' = "return"
    /\ UNCHANGED args

CallCalculateLongestCommonSubsequenceScore ==
    /\ pc = "call"
    /\ "userSequence" \in DOMAIN args
    /\ result' = [score |-> calculateLongestCommonSubsequenceScore(
                                args.userSequence, args.correctSequence)]
    /\ pc' = "return"
    /\ UNCHANGED args

NextSubsequence ==
    CallLongestCommonSubsequence \/ CallCalculateLongestCommonSubsequenceScore

SpecSubsequence == InitSubsequence /\ [][NextSubsequence]_vars

\* C20: longestCommonSubsequence returns the length of a longest, not
\* necessarily contiguous, subsequence common to both sequences, and the
\* LCS-based score is that length divided by the length of the correct
\* sequence.
C20_LongestCommonSubsequence ==
    pc = "return" =>
        /\ "seq1" \in DOMAIN args =>
              result.length = CommonSubsequenceMax(args.seq1, args.seq2)
        /\ "userSequence" \in DOMAIN args =>
              /\ result.score[1] * Len(args.correctSequence) =
                     result.score[2] * CommonSubsequenceMax(args.userSequence,
                                                            args.correctSequence)
              /\ result.score[2] > 0

\* [a,b,c] and [a,c]: the common subsequence [a,c] is not contiguous in the
\* first sequence.
C20_Witness ==
    /\ pc = "return"
    /\ "seq1" \in DOMAIN args
    /\ args.seq1 = <<"a", "b", "c">>
    /\ args.seq2 = <<"a", "c">>
    /\ result.length = 2

(***************************************************************************)
(* Repeated calls.  One call of a grader or of a statistics function is    *)
(* made, then any number of other calls, then the first call again with    *)
(* the same inputs.  The functions keep nothing between calls: a call in   *)
(* between leaves only its own return value behind.                        *)
(***************************************************************************)
Call(fn, input) == [fn |-> fn, input |-> input]

\* The function named by the call applied to its inputs.
Apply(call) ==
    CASE call.fn = "gradeNumericQuestion" ->
            gradeNumericQuestion(call.input.userAnswer, call.input.question)
      [] call.fn = "gradeSequenceQuestion" ->
            gradeSequenceQuestion(call.input.userAnswer, call.input.correctSequence,
                                  call.input.allowPartialCredit)
      [] call.fn = "gradeRatingQuestion" ->
            gradeRatingQuestion(call.input.userAnswer, call.input.ratingMin,
                                call.input.ratingMax, call.input.ratingType,
                                call.input.expectedRating, call.input.tolerance,
                                call.input.isSubjective)
      [] call.fn = "gradeDropdownQuestion" ->
            gradeDropdownQuestion(call.input.question, call.input.answer,
                                  call.input.options)
      [] call.fn = "calculateRatingStatistics" ->
            calculateRatingStatistics(call.input.ratings)
      [] call.fn = "generateDropdownStatistics" ->
            generateDropdownStatistics(call.input.results)

RepeatedCalls ==
    {Call("gradeNumericQuestion", a) : a \in
        {x \in NumericArgs : x.question.tolerance = 20 /\ x.userAnswer >= NumLo
                             /\ x.question.correctAnswer >= NumHi - SmallMax}}
    \cup {Call("gradeSequenceQuestion", a) : a \in
             {x \in SequenceArgs : NoDuplicates(x.correctSequence)}}
    \cup {Call("gradeRatingQuestion", a) : a \in
             {x \in RatingArgs : /\ x.ratingType = "likert"
                                 /\ x.tolerance \in {<<>>, <<1>>}
                                 /\ x.expectedRating \in {<<>>, <<2>>, <<3>>}}}
    \cup {Call("gradeDropdownQuestion", a) : a \in
             {x \in DropdownArgs : /\ x.options.maxScore = <<1, 1>>
                                   /\ "A" \notin Range(x.answer.selectedOption)}}
    \cup {Call("calculateRatingStatistics", a) : a \in
             {x \in RatingStatisticsArgs : Len(x.ratings) < MaxRatings}}
    \cup {Call("generateDropdownStatistics", a) : a \in
             {x \in DropdownStatisticsArgs : Len(x.results) < MaxMixedBatch - 1}}

\* The calls made in between: a grader and a statistics function.
OtherCalls ==
    {Call("gradeSequenceQuestion",
          [userAnswer |-> SequenceAnswer(<<"b", "a">>), correctSequence |-> <<"a", "b">>,
           allowPartialCredit |-> TRUE]),
     Call("calculateRatingStatistics", [ratings |-> <<2, 1>>])}

MaxOtherCalls == 2

InitRepeated == pc = "call" /\ args \in RepeatedCalls /\ result = <<>>

FirstCall ==
    /\ pc = "call"
    /\ result' = [first |-> Apply(args), calls |-> 0]
    /\ pc' = "between"
    /\ UNCHANGED args

OtherCall ==
    /\ pc = "between"
    /\ result.calls < MaxOtherCalls
    /\ \E other \in OtherCalls :
           result' = [first |-> result.first, calls |-> result.calls + 1,
                      other |-> Apply(other)]
    /\ UNCHANGED <<pc, args>>

SecondCall ==
    /\ pc = "between"
    /\ result' = [first |-> result.first, calls |-> result.calls,
                  second |-> Apply(args)]
    /\ pc' = "return"
    /\ UNCHANGED args

NextRepeated == FirstCall \/ OtherCall \/ SecondCall

SpecRepeated == InitRepeated /\ [][NextRepeated]_vars

Procs == {1, 2}

FillIds == {"a", "b"}

MaxFillLen == 2

FillSeqs == UNION {[1..n -> FillIds] : n \in 0..MaxFillLen}

TableCalls ==
    [fn : {"longestCommonSubsequence", "calculateStringSimilarity"},
     s1 : FillSeqs, s2 : FillSeqs]

\* The calls of the second caller.
SecondCallerCalls ==
    {[fn |-> "longestCommonSubsequence", s1 |-> <<"a", "b">>, s2 |-> <<"b", "a">>],
     [fn |-> "longestCommonSubsequence", s1 |-> <<"b">>, s2 |-> <<"a", "b">>],
     [fn |-> "calculateStringSimilarity", s1 |-> <<"a", "b">>, s2 |-> <<"b", "b">>]}

\* Bounds of the outer and of the inner loop.
OuterLength(call) ==
    IF call.fn = "longestCommonSubsequence" THEN Len(call.s1) ELSE Len(call.s2)

InnerLength(call) ==
    IF call.fn = "longestCommonSubsequence" THEN Len(call.s2) ELSE Len(call.s1)

\* The table as allocated: dp filled with 0; matrix with its first row and
\* column numbered.
NewTable(call) ==
    [r \in 0..OuterLength(call), c \in 0..InnerLength(call) |->
        IF call.fn = "longestCommonSubsequence" THEN 0
        ELSE IF r = 0 THEN c ELSE IF c = 0 THEN r ELSE 0]

\* The body of the inner loop for cell [r][c].
CellValue(call, table, r, c) ==
    IF call.fn = "longestCommonSubsequence"
    THEN IF call.s1[r] = call.s2[c] THEN table[r - 1, c - 1] + 1
         ELSE Max2(table[r - 1, c], table[r, c - 1])
    ELSE LET indicator == IF call.s1[c] = call.s2[r] THEN 0 ELSE 1
         IN  Min3(table[r, c - 1] + 1, table[r - 1, c] + 1,
                  table[r - 1, c - 1] + indicator)

\* The value returned once the loops are over.
Outcome(call, table) ==
    IF call.fn = "longestCommonSubsequence"
    THEN table[OuterLength(call), InnerLength(call)]
    ELSE LET maxLength == Max2(Len(call.s1), Len(call.s2))
         IN  Frac(maxLength - table[OuterLength(call), InnerLength(call)], maxLength)

TableOfFirstCaller(p) ==
    IF /\ "table" \in DOMAIN result[1]
       /\ DOMAIN result[1].table = DOMAIN result[p].table
    THEN result[1].table ELSE result[p].table

\* const dp / const matrix: the table of call p is local to it.
TableOf(p) == result[p].table

InitConcurrent ==
    /\ pc = [p \in Procs |-> "start"]
    /\ \E first \in TableCalls, second \in SecondCallerCalls :
           args = [p \in Procs |-> IF p = 1 THEN first ELSE second]
    /\ result = [p \in Procs |-> <<>>]

\* From the entry of the function to the first iteration, or to one of the
\* early returns of calculateStringSimilarity.
Allocate(p) ==
    /\ pc[p] = "start"
    /\ IF args[p].fn = "calculateStringSimilarity" /\ args[p].s1 = args[p].s2
       THEN /\ result' = [result EXCEPT ![p] = [value |-> <<1, 1>>]]
            /\ pc' = [pc EXCEPT ![p] = "done"]
       ELSE IF /\ args[p].fn = "calculateStringSimilarity"
               /\ (Len(args[p].s1) = 0 \/ Len(args[p].s2) = 0)
       THEN /\ result' = [result EXCEPT ![p] = [value |-> <<0, 1>>]]
            /\ pc' = [pc EXCEPT ![p] = "done"]
       ELSE /\ result' = [result EXCEPT ![p] =
                             [table |-> NewTable(args[p]),
                              row |-> IF InnerLength(args[p]) = 0
                                      THEN OuterLength(args[p]) + 1 ELSE 1,
                              col |-> 1]]
            /\ pc' = [pc EXCEPT ![p] = "fill"]
    /\ UNCHANGED args

FillCell(p) ==
    /\ pc[p] = "fill"
    /\ result[p].row <= OuterLength(args[p])
    /\ LET r == result[p].row
           c == result[p].col
           last == c = InnerLength(args[p])
       IN  result' = [result EXCEPT ![p] =
                         [table |-> [TableOf(p) EXCEPT ![r, c] =
                                         CellValue(args[p], TableOf(p), r, c)],
                          row |-> IF last THEN r + 1 ELSE r,
                          col |-> IF last THEN 1 ELSE c + 1]]
    /\ UNCHANGED <<pc, args>>

Return(p) ==
    /\ pc[p] = "fill"
    /\ result[p].row > OuterLength(args[p])
    /\ result' = [result EXCEPT ![p] = [value |-> Outcome(args[p], TableOf(p))]]
    /\ pc' = [pc EXCEPT ![p] = "done"]
    /\ UNCHANGED args

NextConcurrent == \E p \in Procs : Allocate(p) \/ FillCell(p) \/ Return(p)

SpecConcurrent == InitConcurrent /\ [][NextConcurrent]_vars

\* The value the call returns when it runs alone.
RunAlone(call) ==
    IF call.fn = "longestCommonSubsequence"
    THEN longestCommonSubsequence(call.s1, call.s2)
    ELSE calculateStringSimilarity(call.s1, call.s2, TRUE)

\* C16: under any interleaving of the steps of the calls, each call returns
\* the result it returns when run alone.
C16_InterleavingIndependent ==
    \A p \in Procs : pc[p] = "done" => result[p].value = RunAlone(args[p])

\* Both calls have returned; the two had tables of the same shape.
C16_Witness ==
    /\ pc[1] = "done"
    /\ pc[2] = "done"
    /\ args[1] = [fn |-> "longestCommonSubsequence", s1 |-> <<"a", "b">>,
                  s2 |-> <<"a", "b">>]
    /\ args[2] = [fn |-> "longestCommonSubsequence", s1 |-> <<"a", "b">>,
                  s2 |-> <<"b", "a">>]
    /\ result[1].value = 2
    /\ result[2].value = 1

(***************************************************************************)
(* calculateAdjacentPairsScore called on any two id sequences; an id is    *)
(* any string, a hyphen included.                                          *)
(***************************************************************************)
PairIds == {"a", "c", "a-b", "b-c"}

PairSeqs ==
    UNION {[1..n -> PairIds] : n \in 0..MaxSeqLen}
    \cup {s \in [1..Cardinality(PairIds) -> PairIds] : NoDuplicates(s)}

AdjacentPairsArgs == [userSequence : PairSeqs, correctSequence : PairSeqs]

InitAdjacentPairs == pc = "call" /\ args \in AdjacentPairsArgs /\ result = <<>>

CallCalculateAdjacentPairsScore ==
    /\ pc = "call"
    /\ result' = [score |-> calculateAdjacentPairsScore(args.userSequence,
                                                        args.correctSequence)]
    /\ pc' = "return"
    /\ UNCHANGED args

NextAdjacentPairs == CallCalculateAdjacentPairsScore

SpecAdjacentPairs == InitAdjacentPairs /\ [][NextAdjacentPairs]_vars

\* Consecutive pairs of c that are consecutive pairs of u, both ids equal
\* in order.
CorrectPairsInUser(u, c) ==
    Cardinality({i \in 1..(Len(c) - 1) :
                    \E j \in 1..(Len(u) - 1) : u[j] = c[i] /\ u[j + 1] = c[i + 1]})

HasHyphen(id) == id \in {"a-b", "b-c"}

\* C21 (as stated): the score is the number of consecutive pairs of the
\* correct sequence that occur as a consecutive pair of the user sequence,
\* divided by correct.length - 1, and 0 when the correct sequence has fewer
\* than 2 items.
C21_AdjacentPairsScore ==
    pc = "return" =>
        IF Len(args.correctSequence) < 2 THEN result.score = <<0, 1>>
        ELSE result.score = Frac(CorrectPairsInUser(args.userSequence, args.correctSequence),
                                 Len(args.correctSequence) - 1)

\* The same for duplicate-free sequences of ids without a hyphen.
C21_AdjacentPairsScorePlainIds ==
    (/\ pc = "return"
     /\ NoDuplicates(args.userSequence)
     /\ NoDuplicates(args.correctSequence)
     /\ \A id \in Range(args.userSequence) \cup Range(args.correctSequence) :
            ~HasHyphen(id))
        => IF Len(args.correctSequence) < 2 THEN result.score = <<0, 1>>
           ELSE result.score =
                    Frac(CorrectPairsInUser(args.userSequence, args.correctSequence),
                         Len(args.correctSequence) - 1)

(***************************************************************************)
(* calculateStringSimilarity called on any two strings.                    *)
(***************************************************************************)
EditChars == {"a", "A", "b"}

MaxEditLen == 3

EditStrings == UNION {[1..n -> EditChars] : n \in 0..MaxEditLen}

SimilarityArgs == [str1 : EditStrings, str2 : EditStrings, caseSensitive : BOOLEAN]

InitSimilarity == pc = "call" /\ args \in SimilarityArgs /\ result = <<>>

CallCalculateStringSimilarity ==
    /\ pc = "call"
    /\ result' = [similarity |-> calculateStringSimilarity(args.str1, args.str2,
                                                           args.caseSensitive)]
    /\ pc' = "return"
    /\ UNCHANGED args

NextSimilarity == CallCalculateStringSimilarity

SpecSimilarity == InitSimilarity /\ [][NextSimilarity]_vars

\* The strings one insertion, deletion or substitution away from str, none
\* longer than maxLen.
EditNeighbours(str, maxLen) ==
    {SubSeq(str, 1, i - 1) \o SubSeq(str, i + 1, Len(str)) : i \in 1..Len(str)}
    \cup {[str EXCEPT ![i] = c] : i \in 1..Len(str), c \in EditChars}
    \cup (IF Len(str) < maxLen
          THEN {SubSeq(str, 1, i) \o <<c>> \o SubSeq(str, i + 1, Len(str)) :
                    i \in 0..Len(str), c \in EditChars}
          ELSE {})

RECURSIVE EditSteps(_, _, _, _)
EditSteps(reached, target, maxLen, k) ==
    IF target \in reached THEN k
    ELSE EditSteps(reached \cup UNION {EditNeighbours(str, maxLen) : str \in reached},
                   target, maxLen, k + 1)

\* The least number of single-character edits that turn from into to.
EditDistance(from, to) == EditSteps({from}, to, Max2(Len(from), Len(to)), 0)

CaseFolded(str) == IF args.caseSensitive THEN str ELSE ToLowerCase(str)

\* C22: the similarity is 1 - d/max(len1, len2) with d the Levenshtein
\* distance of the strings, case-folded unless caseSensitive; 1 for equal
\* strings, 0 when exactly one string is empty, and the same with the two
\* strings exchanged.
C22_StringSimilarity ==
    pc = "return" =>
        LET f1 == CaseFolded(args.str1)
            f2 == CaseFolded(args.str2)
            maxLength == Max2(Len(f1), Len(f2))
        IN  /\ f1 = f2 => result.similarity = <<1, 1>>
            /\ ((f1 = <<>>) # (f2 = <<>>)) => result.similarity = <<0, 1>>
            /\ maxLength > 0 =>
                   result.similarity = Frac(maxLength - EditDistance(f1, f2), maxLength)
            /\ result.similarity =
                   calculateStringSimilarity(args.str2, args.str1, args.caseSensitive)

\* 'Aba' and 'aa' without case: one deletion, similarity 2/3.
C22_Witness ==
    /\ pc = "return"
    /\ ~args.caseSensitive
    /\ args.str1 = <<"A", "b", "a">>
    /\ args.str2 = <<"a", "a">>
    /\ EditDistance(<<"a", "b", "a">>, <<"a", "a">>) = 1
    /\ result.similarity = <<2, 3>>

(***************************************************************************)
(* gradeDropdownQuestion with other values of options.maxScore: 1, 0.5 and *)
(* 0.004, on the selections written without a capital.                     *)
(***************************************************************************)
ScaledMaxScores == {<<1, 1>>, <<1, 2>>, <<4, 1000>>}

DropdownScaledArgs ==
    {[x EXCEPT !.options.maxScore = m] :
        x \in {y \in DropdownArgs : /\ y.options.maxScore = <<1, 1>>
                                    /\ "A" \notin Range(y.answer.selectedOption)},
        m \in ScaledMaxScores}

InitDropdownScaled == pc = "call" /\ args \in DropdownScaledArgs /\ result = <<>>

SpecDropdownScaled == InitDropdownScaled /\ [][NextDropdown]_vars

\* matchType 'exact', isCorrect and answerType 'correct' go together;
\* partial credit goes with an incorrect result; matchType is 'exact' or
\* 'none'.
DropdownTagsConsistent ==
    /\ result.gradingDetails.matchType = "exact" <=> result.isCorrect
    /\ result.isCorrect <=> result.gradingDetails.answerType = "correct"
    /\ result.gradingDetails.matchType \in {"exact", "none"}
    /\ result.partialCredit =>
          /\ ~result.isCorrect
          /\ result.gradingDetails.matchType = "none"
          /\ result.gradingDetails.answerType = "incorrect"

\* C23 (as stated): in every result matchType is 'exact' iff isCorrect iff
\* answerType is 'correct'; partialCredit=true implies isCorrect=false,
\* matchType 'none', answerType 'incorrect' and, for maxScore > 0,
\* score > 0; matchType is never anything but 'exact' or 'none'.
C23_DropdownResultConsistent ==
    pc = "return" =>
        /\ DropdownTagsConsistent
        /\ (result.partialCredit /\ FracLt(<<0, 1>>, args.options.maxScore)) =>
               FracLt(<<0, 1>>, result.score)

\* The same without the part on the score.
C23_DropdownTagsConsistent == pc = "return" => DropdownTagsConsistent

(***************************************************************************)
(* generateSequenceFeedback(result, itemLabels), on the results of         *)
(* gradeSequenceQuestion.  itemLabels is <<>> when absent, else <<f>> with *)
(* f a record from ids to labels; the text is the tuple of the pieces of   *)
(* the template string, the joined listings being strings.                 *)
(***************************************************************************)
Labels == {"", "First"}

ItemLabels ==
    {<<>>} \cup {<<f>> : f \in UNION {[S -> Labels] : S \in SUBSET Ids}}

\* itemLabels?.[id] || `Item ${id}`
getLabel(itemLabels, id) ==
    IF itemLabels # <<>> /\ id \in DOMAIN itemLabels[1] /\ itemLabels[1][id] # ""
    THEN itemLabels[1][id]
    ELSE "Item " \o id

RECURSIVE Join(_, _)
Join(parts, separator) ==
    IF Len(parts) = 0 THEN ""
    ELSE IF Len(parts) = 1 THEN parts[1]
    ELSE parts[1] \o separator \o Join(Tail(parts), separator)

MapLabels(sequence, itemLabels) ==
    [i \in 1..Len(sequence) |-> getLabel(itemLabels, sequence[i])]

generateSequenceFeedbackAlwaysCount(sequenceResult, itemLabels) ==
    LET userSequence == sequenceResult.userSequence
        correctSequence == sequenceResult.correctSequence
        correctPositions ==
            Cardinality({i \in 1..Len(userSequence) :
                            i <= Len(correctSequence)
                            /\ userSequence[i] = correctSequence[i]})
    IN  IF sequenceResult.isCorrect
        THEN <<"Excellent! You arranged all items in the correct sequence.">>
        ELSE IF sequenceResult.score[1] = 0
        THEN <<"The correct sequence is: ",
               Join(MapLabels(correctSequence, itemLabels), " → ")>>
        ELSE <<"You got ", correctPositions, " out of ", Len(correctSequence),
               " items in the right position. The correct sequence is: ",
               Join(MapLabels(correctSequence, itemLabels), " → ")>>

generateSequenceFeedback(sequenceResult, itemLabels) ==
    LET userSequence == sequenceResult.userSequence
        correctSequence == sequenceResult.correctSequence
        correctPositions ==
            Cardinality({i \in 1..Len(userSequence) :
                            i <= Len(correctSequence)
                            /\ userSequence[i] = correctSequence[i]})
    IN  IF sequenceResult.isCorrect
        THEN <<"Excellent! You arranged all items in the correct sequence.">>
        ELSE IF sequenceResult.score[1] = 0
        THEN <<"The correct sequence is: ",
               Join(MapLabels(correctSequence, itemLabels), " → ")>>
        ELSE IF correctPositions > 0
        THEN <<"You got ", correctPositions, " out of ", Len(correctSequence),
               " items in the right position. The correct sequence is: ",
               Join(MapLabels(correctSequence, itemLabels), " → ")>>
        ELSE <<"Your sequence: ",
               Join(MapLabels(userSequence, itemLabels), " → "),
               ". Correct sequence: ",
               Join(MapLabels(correctSequence, itemLabels), " → ")>>

SequenceResults ==
    {gradeSequenceQuestion(x.userAnswer, x.correctSequence, x.allowPartialCredit) :
        x \in SequenceArgs}

SequenceFeedbackArgs == [result : SequenceResults, itemLabels : ItemLabels]

InitSequenceFeedback ==
    pc = "call" /\ args \in SequenceFeedbackArgs /\ result = <<>>

CallGenerateSequenceFeedback ==
    /\ pc = "call"
    /\ result' = generateSequenceFeedback(args.result, args.itemLabels)
    /\ pc' = "return"
    /\ UNCHANGED args

NextSequenceFeedback == CallGenerateSequenceFeedback

SpecSequenceFeedback == InitSequenceFeedback /\ [][NextSequenceFeedback]_vars

\* The label given for id when there is one, the text 'Item <id>' when no
\* lookup is given or id is not in it.
LabelGiven(id) ==
    IF args.itemLabels = <<>> THEN "Item " \o id
    ELSE IF id \in DOMAIN args.itemLabels[1] THEN args.itemLabels[1][id]
    ELSE "Item " \o id

\* The same, an empty label counting as none.
LabelShown(id) == IF LabelGiven(id) = "" THEN "Item " \o id ELSE LabelGiven(id)

\* The labels of s written from the last to the first, arrows in between.
RECURSIVE ListingOf(_, _, _)
ListingOf(s, k, emptyAsNone) ==
    LET Label(id) == IF emptyAsNone THEN LabelShown(id) ELSE LabelGiven(id)
    IN  IF k = 0 THEN ""
        ELSE IF k = 1 THEN Label(s[1])
        ELSE ListingOf(s, k - 1, emptyAsNone) \o " → " \o Label(s[k])

SequenceFeedbackFor(emptyAsNone, countAlways) ==
    LET r == args.result
        c == r.correctSequence
        u == r.userSequence
        correctListing == ListingOf(c, Len(c), emptyAsNone)
        positioned == Cardinality({i \in 1..Len(u) : i <= Len(c) /\ u[i] = c[i]})
    IN  /\ r.isCorrect =>
            result = <<"Excellent! You arranged all items in the correct sequence.">>
        /\ (~r.isCorrect /\ r.score = <<0, 1>>) =>
            result = <<"The correct sequence is: ", correctListing>>
        /\ (~r.isCorrect /\ FracLt(<<0, 1>>, r.score)
              /\ (countAlways \/ positioned > 0)) =>
            result = <<"You got ", positioned, " out of ", Len(c),
                       " items in the right position. The correct sequence is: ",
                       correctListing>>
        /\ (~r.isCorrect /\ FracLt(<<0, 1>>, r.score)
              /\ ~countAlways /\ positioned = 0) =>
            result = <<"Your sequence: ", ListingOf(u, Len(u), emptyAsNone),
                       ". Correct sequence: ", correctListing>>

\* C24 (as stated): for a result that is not correct the feedback is the
\* correct-order listing when score = 0 and, when score > 0, the count of
\* correctly positioned items with the correct-order listing; labels come
\* from the lookup when given, else 'Item <id>', joined with arrows; a
\* correct result gives the fixed 'Excellent!' message.
C24_SequenceFeedback ==
    pc = "return" => SequenceFeedbackFor(FALSE, TRUE)

\* C24 (amended): as above, except that with score > 0 and no item in the
\* right position the feedback is the listing of the user's sequence
\* followed by the correct-order listing, without a count, and that an
\* empty label in the lookup is replaced by 'Item <id>'.
C24_SequenceFeedbackByPositions ==
    pc = "return" => SequenceFeedbackFor(TRUE, FALSE)

\* The lookup with an empty label left aside, the count is still missing.
C24_SequenceFeedbackNonEmptyLabels ==
    (pc = "return" /\ (args.itemLabels # <<>> =>
                          \A id \in DOMAIN args.itemLabels[1] :
                              args.itemLabels[1][id] # ""))
        => SequenceFeedbackFor(FALSE, TRUE)

C24_Witness ==
    /\ pc = "return"
    /\ args.result.userSequence = <<"b", "c", "a">>
    /\ args.result.correctSequence = <<"a", "b", "c">>
    /\ args.result.score = <<2, 3>>
    /\ args.itemLabels = <<[a |-> "First", b |-> ""]>>
    /\ result = <<"Your sequence: ", "Item b → Item c → First",
                  ". Correct sequence: ", "First → Item b → Item c">>

(***************************************************************************)
(* gradeRatingQuestion on every scale the schema allows, for the feedback  *)
(* of subjective questions.                                                *)
(***************************************************************************)
SubjectiveArgs ==
    {a \in [userAnswer : RatingAnswers,
            ratingMin : RatingSchemaMin..RatingSchemaMax,
            ratingMax : RatingSchemaMin..RatingSchemaMax,
            ratingType : RatingTypes,
            expectedRating : {<<>>, <<3>>},
            tolerance : {<<>>},
            isSubjective : BOOLEAN] :
        /\ a.ratingMin < a.ratingMax
        /\ (a.expectedRating # <<>> => a.isSubjective)}

InitSubjective == pc = "call" /\ args \in SubjectiveArgs /\ result = <<>>

SpecSubjective == InitSubjective /\ [][NextRating]_vars

\* The sentiment words whose range holds p = 100 * (rating - ratingMin) /
\* (ratingMax - ratingMin), the comparisons being made on integers.
SentimentBuckets ==
    LET d == args.ratingMax - args.ratingMin
        n == 100 * (args.userAnswer.rating - args.ratingMin)
    IN  {w \in {"very positive", "positive", "neutral", "somewhat negative",
                "negative"} :
            \/ w = "very positive" /\ n >= 80 * d
            \/ w = "positive" /\ 60 * d <= n /\ n < 80 * d
            \/ w = "neutral" /\ 40 * d <= n /\ n < 60 * d
            \/ w = "somewhat negative" /\ 20 * d <= n /\ n < 40 * d
            \/ w = "negative" /\ n < 20 * d}

SubjectiveGraded ==
    /\ pc = "return"
    /\ validateRatingAnswer(args.userAnswer, args.ratingMin, args.ratingMax).isValid

\* C25: on a valid rating of a subjective question the sentiment word of the
\* feedback is the one whose range holds p = 100 * (rating - ratingMin) /
\* (ratingMax - ratingMin): p >= 80 'very positive', 60 <= p < 80
\* 'positive', 40 <= p < 60 'neutral', 20 <= p < 40 'somewhat negative',
\* p < 20 'negative'; exactly one range holds p; rating = ratingMin gives
\* 'negative' and rating = ratingMax 'very positive'.
C25_SentimentBucket ==
    SubjectiveGraded =>
        /\ SentimentBuckets = {result.feedback[2]}
        /\ result.feedback[1] = "Thank you for your"
        /\ args.userAnswer.rating = args.ratingMin => result.feedback[2] = "negative"
        /\ args.userAnswer.rating = args.ratingMax => result.feedback[2] = "very positive"

\* Rating 5 on the scale 1..6 is at p = 80 exactly.
C25_Witness ==
    /\ SubjectiveGraded
    /\ args.ratingMin = 1
    /\ args.ratingMax = 6
    /\ args.userAnswer.rating = 5
    /\ args.isSubjective
    /\ result.feedback[2] = "very positive"

(***************************************************************************)
(* gradeSequenceQuestion on ids that contain a hyphen, the correct         *)
(* sequence being free of duplicates.                                      *)
(***************************************************************************)
HyphenIds == {"a", "a-a", "b"}

HyphenSeqs == UNION {[1..n -> HyphenIds] : n \in 0..MaxSeqLen}

HyphenSequenceArgs ==
    [userAnswer : {SequenceAnswer(s) : s \in HyphenSeqs},
     correctSequence : {s \in HyphenSeqs : Len(s) >= MinCorrectLen /\ NoDuplicates(s)},
     allowPartialCredit : BOOLEAN]

InitSequenceHyphen == pc = "call" /\ args \in HyphenSequenceArgs /\ result = <<>>

SpecSequenceHyphen == InitSequenceHyphen /\ [][NextSequence]_vars

PartialScoreStrictlyBetween ==
    LET u == args.userAnswer.sequence
        c == args.correctSequence
    IN  /\ FracLt(<<0, 1>>, result.score)
        /\ FracLt(result.score, <<1, 1>>)
        /\ FracLe(Frac(1, Len(c)), calculateLongestCommonSubsequenceScore(u, c))
        /\ result.feedback[1] = "Partially correct. You got"
        /\ FracLt(calculatePositionalScore(u, c), <<1, 1>>)
        /\ FracLt(calculateLongestCommonSubsequenceScore(u, c), <<1, 1>>)
        /\ FracLt(calculateAdjacentPairsScore(u, c), <<1, 1>>)

\* C26 (as stated): for every duplicate-free correctSequence and every valid
\* answer that is not an exact match, gradeSequenceQuestion with
\* allowPartialCredit=true returns a score strictly between 0 and 1: the LCS
\* score is at least 1/n, the zero-score 'Incorrect sequence' result is not
\* produced and none of the three sub-scores reaches 1; score = 1 if and
\* only if isCorrect.
C26_PartialScoreStrictlyBetween ==
    (pc = "return" /\ NoDuplicates(args.correctSequence)) =>
        /\ (SequenceNotExact /\ args.allowPartialCredit) => PartialScoreStrictlyBetween
        /\ (result.score = <<1, 1>>) <=> result.isCorrect

(***************************************************************************)
(* gradeDropdownQuestion on questions whose correct option text may begin  *)
(* or end with white space, as DropdownQuestionSchema (min(1)) accepts it. *)
(***************************************************************************)
MaxPaddedLen == 3

PaddedStrings == UNION {[1..n -> Chars] : n \in 0..MaxPaddedLen}

PaddedQuestions ==
    {<<Option(c, TRUE, 0), Option(<<"a", "A">>, FALSE, 1)>> :
        c \in PaddedStrings \ {<<>>}}

PaddedDropdownArgs ==
    [question : PaddedQuestions,
     answer : {DropdownAnswer(str) : str \in PaddedStrings},
     options : [caseSensitive : BOOLEAN, allowPartialCredit : BOOLEAN,
                maxScore : {<<1, 1>>}]]

InitDropdownPadded == pc = "call" /\ args \in PaddedDropdownArgs /\ result = <<>>

SpecDropdownPadded == InitDropdownPadded /\ [][NextDropdown]_vars

\* The question has exactly one option flagged correct, its text is not
\* empty and the answer selects exactly that text.
SelectsTheCorrectText ==
    /\ pc = "return"
    /\ args.answer.isObject
    /\ args.answer.type = "DROPDOWN"
    /\ args.answer.selectedIsString
    /\ \E i \in 1..Len(args.question) :
           /\ args.question[i].isCorrect
           /\ \A j \in 1..Len(args.question) : args.question[j].isCorrect => j = i
           /\ args.question[i].text # <<>>
           /\ args.answer.selectedOption = args.question[i].text

\* C27 (as stated): when the question has exactly one correct option, with
\* a non-empty text, an answer whose selectedOption is exactly that text is
\* graded isCorrect = true with score = maxScore, whatever caseSensitive is.
C27_CorrectSelectionAccepted ==
    SelectsTheCorrectText =>
        /\ result.isCorrect
        /\ result.score = args.options.maxScore

(***************************************************************************)
(* Two ratings graded against the same objective rating question.          *)
(***************************************************************************)
RatingPairArgs ==
    {a \in [ratings : (0..(MaxScale + 1)) \X (0..(MaxScale + 1)),
            ratingMin : RatingSchemaMin..MaxScale,
            ratingMax : RatingSchemaMin..MaxScale,
            ratingType : {"stars"},
            expectedRating : {<<e>> : e \in 0..(MaxScale + 1)},
            tolerance : {<<>>, <<-1>>, <<0>>, <<1>>, <<2>>},
            isSubjective : {FALSE}] : a.ratingMin < a.ratingMax}

InitRatingPair == pc = "call" /\ args \in RatingPairArgs /\ result = <<>>

GradeNextRating ==
    /\ pc = "call"
    /\ Len(result) < 2
    /\ result' = Append(result,
                        gradeRatingQuestion(RatingAnswer(args.ratings[Len(result) + 1]),
                                            args.ratingMin, args.ratingMax,
                                            args.ratingType, args.expectedRating,
                                            args.tolerance, args.isSubjective))
    /\ pc' = IF Len(result) = 1 THEN "return" ELSE "call"
    /\ UNCHANGED args

NextRatingPair == GradeNextRating

SpecRatingPair == InitRatingPair /\ [][NextRatingPair]_vars

\* Both ratings are on the scale, the expected rating too, and the tolerance
\* is not negative.
RatingPairGraded ==
    /\ pc = "return"
    /\ \A i \in 1..2 : args.ratingMin <= args.ratings[i] /\ args.ratings[i] <= args.ratingMax
    /\ args.ratingMin <= args.expectedRating[1]
    /\ args.expectedRating[1] <= args.ratingMax
    /\ RatingToleranceOrZero >= 0

PairDistance(i) == Abs(args.ratings[i] - args.expectedRating[1])

\* C28: in objective mode with tolerance >= 0 and expectedRating on the
\* scale, the score is 1 if and only if isCorrect, and of two valid ratings
\* the one at least as close to expectedRating scores at least as much.
C28_ScoreMonotoneInCloseness ==
    RatingPairGraded =>
        /\ \A i \in 1..2 : (result[i].score = <<1, 1>>) <=> result[i].isCorrect
        /\ \A i, j \in 1..2 :
               PairDistance(i) <= PairDistance(j) =>
                   FracLe(result[j].score, result[i].score)

\* Expected 4 on the scale 1..5, ratings 3 and 2: scores 2/3 and 1/3.
C28_Witness ==
    /\ RatingPairGraded
    /\ args.ratingMin = 1 /\ args.ratingMax = 5
    /\ args.expectedRating = <<4>> /\ args.tolerance = <<0>>
    /\ args.ratings = <<3, 2>>
    /\ result[1].score = <<2, 3>>
    /\ result[2].score = <<1, 3>>
    /\ ~result[1].isCorrect

(***************************************************************************)
(* POST /api/quizzes with a body holding one SEQUENCE question.  options   *)
(* is the list of the option texts and correctSequence the list of ids,    *)
(* each <<>> when absent and <<list>> when given.  The response is the     *)
(* status with the quizzes created.                                        *)
(***************************************************************************)
SequenceQuestions ==
    [questionType : {"SEQUENCE"},
     options : {<<>>} \cup {<<o>> : o \in IdSeqs},
     correctSequence : {<<>>} \cup {<<c>> : c \in IdSeqs}]

PostArgs == [authenticated : BOOLEAN, question : SequenceQuestions]

POST(authenticated, question) ==
    IF ~authenticated
    THEN [status |-> 401, created |-> <<>>]
    ELSE IF question.questionType = "SEQUENCE"
            /\ (question.options = <<>> \/ Len(question.options[1]) < 2)
    THEN [status |-> 400, created |-> <<>>]
    ELSE IF question.questionType = "SEQUENCE"
            /\ (question.correctSequence = <<>>
                \/ Len(question.correctSequence[1]) # Len(question.options[1]))
    THEN [status |-> 400, created |-> <<>>]
    ELSE IF question.questionType = "SEQUENCE"
            /\ Cardinality(Range(question.options[1]))
                   # Cardinality(Range(question.correctSequence[1]))
    THEN [status |-> 400, created |-> <<>>]
    ELSE [status |-> 201, created |-> <<question>>]

InitPost == pc = "call" /\ args \in PostArgs /\ result = <<>>

CallPost ==
    /\ pc = "call"
    /\ result' = POST(args.authenticated, args.question)
    /\ pc' = "return"
    /\ UNCHANGED args

NextPost == CallPost

SpecPost == InitPost /\ [][NextPost]_vars

\* correctSequence lists every item of the question once and nothing else.
IsPermutationOfItems ==
    /\ args.question.options # <<>>
    /\ args.question.correctSequence # <<>>
    /\ LET o == args.question.options[1]
           c == args.question.correctSequence[1]
       IN  /\ Len(c) = Len(o)
           /\ NoDuplicates(c)
           /\ \A i \in 1..Len(o) : \E j \in 1..Len(c) : c[j] = o[i]
           /\ \A j \in 1..Len(c) : \E i \in 1..Len(o) : o[i] = c[j]

\* C29 (as stated): POST /api/quizzes stores a SEQUENCE question only if its
\* correctSequence is a permutation of the ids of all its items; any other
\* correctSequence is rejected with status 400 and nothing is created.
C29_SequenceStoredOnlyIfPermutation ==
    (pc = "return" /\ args.authenticated) =>
        /\ result.created # <<>> => IsPermutationOfItems
        /\ ~IsPermutationOfItems => (result.status = 400 /\ result.created = <<>>)

\* What the endpoint does ensure: at least two items, as many ids in
\* correctSequence as items, and as many distinct ids as distinct items.
C29_SequenceStoredOnlyIfSameSize ==
    (pc = "return" /\ result.created # <<>>) =>
        /\ args.authenticated
        /\ Len(args.question.options[1]) >= 2
        /\ Len(args.question.correctSequence[1]) = Len(args.question.options[1])
        /\ Cardinality(Range(args.question.correctSequence[1]))
               = Cardinality(Range(args.question.options[1]))

(***************************************************************************)
(* GET, PUT and DELETE on /api/quizzes/[id].  Two requests are served at   *)
(* a time and interleave at the awaits of the handlers.  A session is <<>> *)
(* or <<userId>>; the title, description and questions of a quiz are one   *)
(* value; result holds the database, the userId each handler obtained, the *)
(* response of each handler and the number of requests received.           *)
(***************************************************************************)
UserIds == {1, 2}

QuizIds == {"q1", "q2"}

\* Quiz.userId: the quiz q1 belongs to user 1 and q2 to user 2.
QuizOwner == [q \in QuizIds |-> IF q = "q1" THEN 1 ELSE 2]

Sessions == {<<>>} \cup {<<u>> : u \in UserIds}

Bodies == {"valid", "schemaInvalid", "choiceInvalid"}

Requests ==
    [method : {"GET", "DELETE"}, session : Sessions, id : QuizIds, body : {"none"}]
    \cup [method : {"PUT"}, session : Sessions, id : QuizIds, body : Bodies]

MaxRequests == 3

NoResponse == <<>>

Response(status, data) == [status |-> status, data |-> data]

userOwnsQuizOfAnyUser(userId, quizId) == result.db[quizId] # "deleted"

\* prisma.quiz.findFirst({ where: { id: quizId, user: { is: { id: userId } } } }) !== null
userOwnsQuiz(userId, quizId) ==
    result.db[quizId] # "deleted" /\ QuizOwner[quizId] = userId

InitQuizRoute ==
    /\ pc = [p \in Procs |-> "idle"]
    /\ args = [p \in Procs |-> <<>>]
    /\ result = [db |-> [q \in QuizIds |-> "original"],
                 userId |-> [p \in Procs |-> 0],
                 response |-> [p \in Procs |-> NoResponse],
                 received |-> 0]

Receive(p) ==
    /\ pc[p] = "idle"
    /\ result.received < MaxRequests
    /\ \E r \in Requests : args' = [args EXCEPT ![p] = r]
    /\ pc' = [pc EXCEPT ![p] = "requireAuthentication"]
    /\ result' = [result EXCEPT !.received = @ + 1, !.response[p] = NoResponse,
                                !.userId[p] = 0]

Respond(p, status, data) ==
    /\ pc' = [pc EXCEPT ![p] = "idle"]
    /\ result' = [result EXCEPT !.response[p] = Response(status, data)]
    /\ UNCHANGED args

\* await requireAuthentication(): throws without a session; GET answers 401,
\* PUT and DELETE fall into their catch-all and answer 500.
RequireAuthentication(p) ==
    /\ pc[p] = "requireAuthentication"
    /\ IF args[p].session = <<>>
       THEN Respond(p, IF args[p].method = "GET" THEN 401 ELSE 500, <<>>)
       ELSE /\ pc' = [pc EXCEPT ![p] = "userOwnsQuiz"]
            /\ result' = [result EXCEPT !.userId[p] = args[p].session[1]]
            /\ UNCHANGED args

\* await userOwnsQuiz(userId, id)
CheckOwnership(p) ==
    /\ pc[p] = "userOwnsQuiz"
    /\ IF ~userOwnsQuiz(result.userId[p], args[p].id)
       THEN Respond(p, 404, <<>>)
       ELSE /\ pc' = [pc EXCEPT ![p] =
                         CASE args[p].method = "GET" -> "findUnique"
                           [] args[p].method = "PUT" -> "parse"
                           [] OTHER -> "delete"]
            /\ UNCHANGED <<args, result>>

\* GET: await prisma.quiz.findUnique(...)
FindUnique(p) ==
    /\ pc[p] = "findUnique"
    /\ IF result.db[args[p].id] = "deleted"
       THEN Respond(p, 404, <<>>)
       ELSE Respond(p, 200, <<result.db[args[p].id]>>)

\* PUT: await request.json(), UpdateQuizSchema.parse(body) and the checks on
\* the choice questions.
ParseBody(p) ==
    /\ pc[p] = "parse"
    /\ IF args[p].body # "valid"
       THEN Respond(p, 400, <<>>)
       ELSE /\ pc' = [pc EXCEPT ![p] = "transaction"]
            /\ UNCHANGED <<args, result>>

\* PUT: await prisma.$transaction(...): question.deleteMany then quiz.update,
\* rolled back when quiz.update finds no quiz.
UpdateQuiz(p) ==
    /\ pc[p] = "transaction"
    /\ IF result.db[args[p].id] = "deleted"
       THEN Respond(p, 500, <<>>)
       ELSE /\ pc' = [pc EXCEPT ![p] = "idle"]
            /\ result' = [result EXCEPT !.db[args[p].id] = "updated",
                                        !.response[p] = Response(200, <<"updated">>)]
            /\ UNCHANGED args

\* DELETE: await prisma.quiz.delete({ where: { id } })
DeleteQuiz(p) ==
    /\ pc[p] = "delete"
    /\ IF result.db[args[p].id] = "deleted"
       THEN Respond(p, 500, <<>>)
       ELSE /\ pc' = [pc EXCEPT ![p] = "idle"]
            /\ result' = [result EXCEPT !.db[args[p].id] = "deleted",
                                        !.response[p] = Response(200, <<>>)]
            /\ UNCHANGED args

NextQuizRoute ==
    \E p \in Procs :
        \/ Receive(p)
        \/ RequireAuthentication(p)
        \/ CheckOwnership(p)
        \/ FindUnique(p)
        \/ ParseBody(p)
        \/ UpdateQuiz(p)
        \/ DeleteQuiz(p)

SpecQuizRoute == InitQuizRoute /\ [][NextQuizRoute]_vars

\* The request p is serving comes from the owner of the quiz it names.
FromOwner(p) ==
    /\ args[p] # <<>>
    /\ args[p].session = <<QuizOwner[args[p].id]>>

\* A step that changes or deletes quiz q is the write of a PUT with a valid
\* body, or of a DELETE, on q, sent by the owner of q.
ChangedOnlyByOwner ==
    \A q \in QuizIds :
        result'.db[q] # result.db[q] =>
            \E p \in Procs :
                /\ pc[p] \in {"transaction", "delete"}
                /\ pc'[p] = "idle"
                /\ args[p].id = q
                /\ FromOwner(p)
                /\ args[p].method \in {"PUT", "DELETE"}
                /\ args[p].method = "PUT" => args[p].body = "valid"

\* A response to anyone but the owner of the quiz carries no quiz data and
\* is an error; so is the response to a PUT whose body is invalid.
ResponsesWithoutLeak ==
    \A p \in Procs :
        (args[p] # <<>> /\ result.response[p] # NoResponse) =>
            /\ ~FromOwner(p) =>
                  /\ result.response[p].data = <<>>
                  /\ result.response[p].status \in {401, 404, 500}
            /\ (args[p].method = "PUT" /\ args[p].body # "valid") =>
                  /\ result.response[p].data = <<>>
                  /\ result.response[p].status # 200

\* C30: across any sequence of GET, PUT and DELETE requests on
\* /api/quizzes/[id], a quiz is changed or deleted only by a request of the
\* authenticated user who owns it; a request of an unauthenticated caller
\* or of a non-owner changes no quiz and is answered without quiz data, and
\* a PUT whose body fails validation changes no quiz.
C30_OnlyOwnerChangesQuiz ==
    [][ChangedOnlyByOwner /\ ResponsesWithoutLeak']_vars

\* The owner of q1 has updated it while user 2 was refused on the same quiz,
\* after an earlier request.
C30_Witness ==
    /\ result.received = 3
    /\ result.db["q1"] = "updated"
    /\ args[1] = [method |-> "PUT", session |-> <<1>>, id |-> "q1", body |-> "valid"]
    /\ result.response[1] = Response(200, <<"updated">>)
    /\ args[2] = [method |-> "PUT", session |-> <<2>>, id |-> "q1", body |-> "valid"]
    /\ result.response[2] = Response(404, <<>>)
====
